---- MODULE Spec2Model ----
(***************************************************************************)
(* The scoring engine of the SEO analyzer: calculateSEOScore and           *)
(* calculateContentScore (src/src/services/seoAnalyzer.ts) and the two     *)
(* subtractive revisions of calculatePerformanceScore (src/unnamed/part_004*)
(* with capped proportional penalties, src/unnamed/part_003 with tiered    *)
(* penalties).  Each function is pure; a behaviour is one call: the        *)
(* initial state holds the function and its argument, the action applies   *)
(* the function and stores what it returns.                                *)
(*                                                                         *)
(* Strings whose content the code never reads are represented by their     *)
(* length (NoString: undefined/null).  JavaScript numbers that can be      *)
(* fractional (the SEO score, which adds (total - withoutAlt) / total * 20)*)
(* are exact rationals num/den; for the image counts drawn here every      *)
(* comparison and rounding of the double-precision value agrees with the   *)
(* exact one (a tie or a threshold is only hit by fractions k/4 and k/8,   *)
(* which doubles represent exactly).                                       *)
(*                                                                         *)
(* The module further holds the analysis of a fetched page (SpecPage: link *)
(* metrics, niche detection and traffic estimate of analyzeSEO in          *)
(* src/unnamed/part_004 and of analyzeLinks in                             *)
(* src/src/services/linkAnalyzer.ts), where the strings the code searches  *)
(* are TLA+ strings, and the fetching of analyzeSEO (SpecFetch: URL        *)
(* validation, proxy fallback, probes and the call of analyzeLinks).       *)
(* SpecRepeat makes several calls of the scoring functions in a row.       *)
(* SpecApp and SpecHandler follow the App component (src/src/App.tsx and   *)
(* its revisions) and its handleAnalyze while the component is mounted.    *)
(***************************************************************************)
EXTENDS Integers, Sequences, FiniteSets, TLC

VARIABLES fn, args, ret, pc, requests, local, calls, app

vars == <<fn, args, ret, pc, requests, local, calls, app>>

(***************************************************************************)
(* Bounds of the model and the inputs drawn for each function.             *)
(***************************************************************************)
MaxImages == 11
MaxH1 == 2

\* The value of an absent string (undefined or null).
NoString == 0 - 1
NoResult == [score |-> -1, rating |-> "none", suggestions |-> <<>>]

TitleLengths == {NoString, 0, 29, 30, 45, 60, 61}
DescriptionLengths == {NoString, 0, 119, 120, 160, 161}
KeywordsLengths == {NoString, 12}
OgTagSets == {{}, {"title"}}

HtmlSizes == {0, 100000, 100001, 150000, 150001, 200000, 1999999, 2000000, 2100000}
LoadTimes == {0, 2000, 2001, 2999, 3000, 3001, 5000, 5001, 6000}
CssFileCounts == {0, 6, 20, 40}
JsFileCounts == {0, 10, 11}
InlineCounts == {0, 5, 6, 12, 14}

WordCounts == {0, 300, 301}
\* textToHtmlRatio is (x * 100).toFixed(2): a percentage with two decimals,
\* held here in hundredths of a percent.
TextToHtmlRatios == {0, 1000, 1001}

SEOInputs ==
    [title : TitleLengths,
     description : DescriptionLengths,
     headings : [h1 : 0..MaxH1, h2 : 0..1, h3 : 0..1],
     images : {im \in [total : 0..MaxImages, withoutAlt : 0..MaxImages] :
                   im.withoutAlt <= im.total},
     meta : [hasViewport : BOOLEAN, hasCharset : BOOLEAN,
             keywords : KeywordsLengths, ogTags : OgTagSets]]

ContentInputs ==
    [contentAnalysis :
         [wordCount : WordCounts, textToHtmlRatio : TextToHtmlRatios,
          hasSchema : BOOLEAN, hasCanonical : BOOLEAN, hasSitemap : BOOLEAN,
          hasSSL : BOOLEAN, mobileResponsive : BOOLEAN, hasFavicon : BOOLEAN,
          hasCustom404 : BOOLEAN],
     accessibility :
         [hasAriaLabels : BOOLEAN, hasAltText : BOOLEAN, hasSkipLinks : BOOLEAN,
          hasLangAttribute : BOOLEAN, hasAccessibleForms : BOOLEAN]]

PerformanceInputs ==
    [htmlSize : HtmlSizes, loadTime : LoadTimes, cssFiles : CssFileCounts,
     jsFiles : JsFileCounts, inlineStyles : InlineCounts,
     inlineScripts : InlineCounts]

(***************************************************************************)
(* JavaScript helpers.                                                     *)
(***************************************************************************)
Min(a, b) == IF a <= b THEN a ELSE b
Max(a, b) == IF a >= b THEN a ELSE b

\* Truthiness of a string value: undefined, null and '' are falsy.
Truthy(s) == s # NoString /\ s > 0

\* Math.round of the rational num/den (den > 0): the nearest integer, a tie
\* going up.
MathRound(num, den) == (2 * num + den) \div (2 * den)

\* Math.floor(a / b) for b > 0.
MathFloorDiv(a, b) == a \div b

(***************************************************************************)
(* calculateSEOScore (seoAnalyzer.ts 255-314).  data.title and             *)
(* data.description are string lengths, headings the lengths of the h1, h2 *)
(* and h3 arrays, meta.keywords a string length or NoString (null),        *)
(* meta.ogTags the set of Open Graph fields whose value is not null.       *)
(***************************************************************************)
\* Mutant of TitleScore: the ideal range taken exclusive of its bounds.
TitleScoreExclusive(data) ==
    IF Truthy(data.title)
    THEN IF data.title > 30 /\ data.title < 60 THEN 20 ELSE 10
    ELSE 0

\* Title analysis (0-20 points).
TitleScore(data) ==
    IF Truthy(data.title)
    THEN IF data.title >= 30 /\ data.title <= 60 THEN 20 ELSE 10
    ELSE 0

TitleSuggestions(data) ==
    IF Truthy(data.title)
    THEN IF data.title >= 30 /\ data.title <= 60
         THEN <<>>
         ELSE <<IF data.title < 30 THEN "Title is too short"
                                   ELSE "Title is too long">>
    ELSE <<"Missing title tag">>

\* Description analysis (0-20 points).
DescriptionScore(data) ==
    IF Truthy(data.description)
    THEN IF data.description >= 120 /\ data.description <= 160 THEN 20 ELSE 10
    ELSE 0

DescriptionSuggestions(data) ==
    IF Truthy(data.description)
    THEN IF data.description >= 120 /\ data.description <= 160
         THEN <<>>
         ELSE <<IF data.description < 120 THEN "Meta description is too short"
                                          ELSE "Meta description is too long">>
    ELSE <<"Missing meta description">>

\* Headings analysis (0-20 points).
HeadingsScore(data) ==
    (IF data.headings.h1 = 1 THEN 10 ELSE 0)
    + (IF data.headings.h2 > 0 THEN 5 ELSE 0)
    + (IF data.headings.h3 > 0 THEN 5 ELSE 0)

HeadingsSuggestions(data) ==
    IF data.headings.h1 = 1
    THEN <<>>
    ELSE <<IF data.headings.h1 = 0 THEN "Missing H1 tag"
                                   ELSE "Multiple H1 tags found">>

\* Images analysis (0-20 points): altScore is the rational
\* (total - withoutAlt) / total * 20, given as numerator over ImagesAltDen.
ImagesAltDen(data) == IF data.images.total > 0 THEN data.images.total ELSE 1

\* Mutant of ImagesAltNum: the credit counts the images without alt text.
ImagesAltNumWithoutAlt(data) ==
    IF data.images.total > 0
    THEN data.images.withoutAlt * 20
    ELSE 0

ImagesAltNum(data) ==
    IF data.images.total > 0
    THEN (data.images.total - data.images.withoutAlt) * 20
    ELSE 0

ImagesSuggestions(data) ==
    IF data.images.total > 0 /\ data.images.withoutAlt > 0
    THEN <<ToString(data.images.withoutAlt) \o " images missing alt text">>
    ELSE <<>>

\* Mutant of MetaScore: the viewport check awards 10 points.
MetaScoreViewportTen(data) ==
    (IF data.meta.hasViewport THEN 10 ELSE 0)
    + (IF data.meta.hasCharset THEN 5 ELSE 0)
    + (IF Truthy(data.meta.keywords) THEN 5 ELSE 0)
    + (IF data.meta.ogTags # {} THEN 5 ELSE 0)

\* Meta tags (0-20 points).
MetaScore(data) ==
    (IF data.meta.hasViewport THEN 5 ELSE 0)
    + (IF data.meta.hasCharset THEN 5 ELSE 0)
    + (IF Truthy(data.meta.keywords) THEN 5 ELSE 0)
    + (IF data.meta.ogTags # {} THEN 5 ELSE 0)

\* The rating of the score num/den under the 4-tier thresholds.
SEORating(num, den) ==
    IF num >= 80 * den THEN "excellent"
    ELSE IF num >= 60 * den THEN "good"
    ELSE IF num >= 40 * den THEN "fair"
    ELSE "poor"

\* The return statement: the score is rounded, the rating is taken from the
\* score as accumulated (not rounded).
SEOReturn(num, den, suggestions) ==
    [score |-> MathRound(num, den),
     rating |-> SEORating(num, den),
     suggestions |-> suggestions]

calculateSEOScore(data) ==
    LET den == ImagesAltDen(data)
        num == (TitleScore(data) + DescriptionScore(data) + HeadingsScore(data)
                + MetaScore(data)) * den + ImagesAltNum(data)
    IN  SEOReturn(num, den,
                  TitleSuggestions(data) \o DescriptionSuggestions(data)
                  \o HeadingsSuggestions(data) \o ImagesSuggestions(data))

(***************************************************************************)
(* calculateContentScore (seoAnalyzer.ts 316-370): fourteen checks, each   *)
(* adding its points or pushing its suggestion.                            *)
(***************************************************************************)
\* One `if (cond) score += points; else suggestions.push(msg)` statement.
Check(cond, points, msg) == [pass |-> cond, points |-> points, msg |-> msg]

ContentChecks(contentAnalysis, accessibility) ==
    << Check(contentAnalysis.wordCount > 300, 10,
             "Add more content to improve engagement"),
       Check(contentAnalysis.textToHtmlRatio > 10 * 100, 10,
             "Improve text to HTML ratio"),
       Check(contentAnalysis.hasSchema, 10,
             "Add schema markup for better search engine understanding"),
       Check(contentAnalysis.hasCanonical, 5,
             "Add canonical tag to prevent duplicate content issues"),
       Check(contentAnalysis.hasSitemap, 5,
             "Add XML sitemap for better search engine crawling"),
       Check(contentAnalysis.hasSSL, 10,
             "Enable HTTPS for better security"),
       Check(contentAnalysis.mobileResponsive, 10,
             "Make website mobile-friendly"),
       Check(contentAnalysis.hasFavicon, 5,
             "Add favicon for better brand recognition"),
       Check(contentAnalysis.hasCustom404, 5,
             "Create custom 404 page for better user experience"),
       Check(accessibility.hasAriaLabels, 6,
             "Add ARIA labels for better accessibility"),
       Check(accessibility.hasAltText, 6,
             "Add alt text to all images"),
       Check(accessibility.hasSkipLinks, 6,
             "Add skip links for better navigation"),
       Check(accessibility.hasLangAttribute, 6,
             "Add language attribute to HTML tag"),
       Check(accessibility.hasAccessibleForms, 6,
             "Make forms more accessible by adding proper labels") >>

\* Running the statements first to last: the points added ...
RECURSIVE ChecksScore(_)
ChecksScore(checks) ==
    IF checks = <<>> THEN 0
    ELSE (IF Head(checks).pass THEN Head(checks).points ELSE 0)
         + ChecksScore(Tail(checks))

\* Mutant of ChecksSuggestions: each suggestion is put in front of the list
\* (unshift for push).
RECURSIVE ChecksSuggestionsUnshift(_)
ChecksSuggestionsUnshift(checks) ==
    IF checks = <<>> THEN <<>>
    ELSE ChecksSuggestionsUnshift(Tail(checks))
         \o (IF Head(checks).pass THEN <<>> ELSE <<Head(checks).msg>>)

\* Mutant of ChecksSuggestions: the suggestions array is shared by all calls
\* and keeps what the call before pushed.
ChecksSuggestionsShared(checks) ==
    (IF calls = <<>> THEN <<>> ELSE calls[Len(calls)].ret.suggestions)
        \o [i \in 1..Len(SelectSeq(checks, LAMBDA c : ~ c.pass)) |->
                SelectSeq(checks, LAMBDA c : ~ c.pass)[i].msg]

\* ... and the suggestions pushed, in statement order.
RECURSIVE ChecksSuggestions(_)
ChecksSuggestions(checks) ==
    IF checks = <<>> THEN <<>>
    ELSE (IF Head(checks).pass THEN <<>> ELSE <<Head(checks).msg>>)
         \o ChecksSuggestions(Tail(checks))

\* Mutant of ContentRating: the top threshold taken exclusive.
ContentRatingExclusive(score) ==
    IF score > 80 THEN "excellent"
    ELSE IF score >= 60 THEN "good"
    ELSE IF score >= 40 THEN "fair"
    ELSE "poor"

ContentRating(score) ==
    IF score >= 80 THEN "excellent"
    ELSE IF score >= 60 THEN "good"
    ELSE IF score >= 40 THEN "fair"
    ELSE "poor"

calculateContentScore(contentAnalysis, accessibility) ==
    LET checks == ContentChecks(contentAnalysis, accessibility)
        score == ChecksScore(checks)
    IN  [score |-> Min(100, score),
         rating |-> ContentRating(score),
         suggestions |-> ChecksSuggestions(checks)]

(***************************************************************************)
(* calculatePerformanceScore, capped penalties (part_004 12-60): the score *)
(* starts at 100 and each block subtracts a capped penalty and pushes one  *)
(* issue.                                                                  *)
(***************************************************************************)
\* HTML Size (max deduction: 20 points).
HtmlSizePenalty(metrics) ==
    IF metrics.htmlSize > 100000
    THEN Min(20, MathFloorDiv(metrics.htmlSize, 100000))
    ELSE 0

HtmlSizeIssues(metrics) ==
    IF metrics.htmlSize > 100000 THEN <<"HTML file size is too large">> ELSE <<>>

\* Mutant of LoadTimePenalty: the seconds are not scaled by 10.
LoadTimePenaltyUnscaled(metrics) ==
    IF metrics.loadTime > 2000
    THEN Min(30, MathFloorDiv(metrics.loadTime, 1000))
    ELSE 0

\* Load Time (max deduction: 30 points).
LoadTimePenalty(metrics) ==
    IF metrics.loadTime > 2000
    THEN Min(30, MathFloorDiv(metrics.loadTime, 1000) * 10)
    ELSE 0

LoadTimeIssues(metrics) ==
    IF metrics.loadTime > 2000 THEN <<"Page load time is too slow">> ELSE <<>>

\* Resource counts (max deduction: 30 points).
ResourcesPenalty(metrics) ==
    LET totalResources == metrics.cssFiles + metrics.jsFiles
    IN  IF totalResources > 15 THEN Min(15, totalResources - 15) ELSE 0

ResourcesIssues(metrics) ==
    IF metrics.cssFiles + metrics.jsFiles > 15
    THEN <<"Too many external resources (CSS/JS files)">>
    ELSE <<>>

InlineStylesPenalty(metrics) ==
    IF metrics.inlineStyles > 5 THEN Min(7, metrics.inlineStyles - 5) ELSE 0

InlineStylesIssues(metrics) ==
    IF metrics.inlineStyles > 5 THEN <<"Too many inline styles">> ELSE <<>>

InlineScriptsPenalty(metrics) ==
    IF metrics.inlineScripts > 5 THEN Min(8, metrics.inlineScripts - 5) ELSE 0

InlineScriptsIssues(metrics) ==
    IF metrics.inlineScripts > 5 THEN <<"Too many inline scripts">> ELSE <<>>

\* Mutant of PerformanceRating: a score of 50 is still poor.
PerformanceRatingInclusive(score) ==
    IF score <= 50 THEN "poor" ELSE IF score < 80 THEN "fair" ELSE "good"

PerformanceRating(score) ==
    IF score < 50 THEN "poor" ELSE IF score < 80 THEN "fair" ELSE "good"

calculatePerformanceScore(metrics) ==
    LET score == Max(0, Min(100,
                     100 - HtmlSizePenalty(metrics) - LoadTimePenalty(metrics)
                         - ResourcesPenalty(metrics)
                         - InlineStylesPenalty(metrics)
                         - InlineScriptsPenalty(metrics)))
    IN  [score |-> score,
         rating |-> PerformanceRating(score),
         issues |-> HtmlSizeIssues(metrics) \o LoadTimeIssues(metrics)
                    \o ResourcesIssues(metrics) \o InlineStylesIssues(metrics)
                    \o InlineScriptsIssues(metrics)]

(***************************************************************************)
(* calculatePerformanceScore, tiered penalties (part_003 223-277).         *)
(***************************************************************************)
TieredHtmlSizePenalty(metrics) ==
    IF metrics.htmlSize > 150000 THEN 20
    ELSE IF metrics.htmlSize > 100000 THEN 10
    ELSE 0

TieredHtmlSizeIssues(metrics) ==
    IF metrics.htmlSize > 150000 THEN <<"HTML size is too large (>150KB)">>
    ELSE IF metrics.htmlSize > 100000
         THEN <<"HTML size is slightly large (>100KB)">>
         ELSE <<>>

TieredLoadTimePenalty(metrics) ==
    IF metrics.loadTime > 5000 THEN 20
    ELSE IF metrics.loadTime > 3000 THEN 10
    ELSE 0

TieredLoadTimeIssues(metrics) ==
    IF metrics.loadTime > 5000 THEN <<"Load time is too high (>5s)">>
    ELSE IF metrics.loadTime > 3000
         THEN <<"Load time is slightly high (>3s)">>
         ELSE <<>>

TieredResourcesPenalty(metrics) ==
    (IF metrics.cssFiles > 5 THEN 10 ELSE 0)
    + (IF metrics.jsFiles > 10 THEN 10 ELSE 0)
    + (IF metrics.inlineStyles > 5 THEN 5 ELSE 0)
    + (IF metrics.inlineScripts > 5 THEN 5 ELSE 0)

TieredResourcesIssues(metrics) ==
    (IF metrics.cssFiles > 5 THEN <<"Too many CSS files">> ELSE <<>>)
    \o (IF metrics.jsFiles > 10 THEN <<"Too many JavaScript files">> ELSE <<>>)
    \o (IF metrics.inlineStyles > 5 THEN <<"Too many inline styles">> ELSE <<>>)
    \o (IF metrics.inlineScripts > 5 THEN <<"Too many inline scripts">> ELSE <<>>)

TieredPerformanceRating(score) ==
    IF score >= 80 THEN "good" ELSE IF score >= 60 THEN "fair" ELSE "poor"

calculatePerformanceScoreTiered(metrics) ==
    LET score == Max(0, Min(100,
                     100 - TieredHtmlSizePenalty(metrics)
                         - TieredLoadTimePenalty(metrics)
                         - TieredResourcesPenalty(metrics)))
    IN  [score |-> score,
         rating |-> TieredPerformanceRating(score),
         issues |-> TieredHtmlSizeIssues(metrics) \o TieredLoadTimeIssues(metrics)
                    \o TieredResourcesIssues(metrics)]

(***************************************************************************)
(* JavaScript strings.  A string is a TLA+ string; the operators below are *)
(* the String.prototype methods the page analysis calls.                   *)
(***************************************************************************)
\* The positions at which w occurs in s.
Occurrences(s, w) ==
    {i \in 1..(Len(s) - Len(w) + 1) : SubSeq(s, i, i + Len(w) - 1) = w}

\* s.includes(w)
Includes(s, w) ==
    \E i \in 1..(Len(s) - Len(w) + 1) : SubSeq(s, i, i + Len(w) - 1) = w

\* s.startsWith(w)
StartsWith(s, w) == Len(s) >= Len(w) /\ SubSeq(s, 1, Len(w)) = w

\* The least and the greatest of a set of positions, 0 for the empty set.
First(at) == IF at = {} THEN 0 ELSE CHOOSE i \in at : \A j \in at : i <= j

Last(at) == IF at = {} THEN 0 ELSE CHOOSE i \in at : \A j \in at : i >= j

\* s.indexOf(w) + 1: the position of the first occurrence, 0 when none.
IndexOf(s, w) == First(Occurrences(s, w))

\* s.lastIndexOf(w) + 1
LastIndexOf(s, w) == Last(Occurrences(s, w))

UpperCaseLetters == "ABCDEFGHIJKLMNOPQRSTUVWXYZ"
LowerCaseLetters == "abcdefghijklmnopqrstuvwxyz"

\* The letter c lower-cased, given its position i among the upper-case
\* letters (0: c is not an upper-case letter).
LowerCharAt(c, i) == IF i = 0 THEN c ELSE SubSeq(LowerCaseLetters, i, i)

\* The lower-case letter of each upper-case letter.
LowerCaseOf ==
    [c \in {SubSeq(UpperCaseLetters, i, i) : i \in 1..Len(UpperCaseLetters)} |->
        LowerCharAt(c, IndexOf(UpperCaseLetters, c))]

LowerChar(c) == IF c \in DOMAIN LowerCaseOf THEN LowerCaseOf[c] ELSE c

\* s lower-cased from position i on.
RECURSIVE LowerFrom(_, _)
LowerFrom(s, i) ==
    IF i > Len(s)
    THEN ""
    ELSE LowerChar(SubSeq(s, i, i)) \o LowerFrom(s, i + 1)

\* s.toLowerCase()
ToLowerCase(s) == LowerFrom(s, 1)

(***************************************************************************)
(* new URL(href, base), for the href forms of Hrefs: an absolute URL with  *)
(* a scheme, a scheme-relative "//host/path", a rooted "/path" and a       *)
(* relative path.  ok = FALSE is the TypeError the constructor throws.     *)
(***************************************************************************)
InvalidURL == [ok |-> FALSE, protocol |-> "", hostname |-> "", pathname |-> ""]

\* The first i - 1 characters of s; all of s when i = 0.
Prefix(s, i) == IF i = 0 THEN s ELSE SubSeq(s, 1, i - 1)

\* The text before the first occurrence of c.
Before(s, c) == Prefix(s, IndexOf(s, c))

\* A path without its query and fragment.
Pathname(s) == Before(Before(s, "#"), "?")

\* The scheme of href, given the position i of its first colon.
SchemeAt(href, i) ==
    IF i > 1 /\ \A c \in {"/", "?", "#"} : ~ Includes(SubSeq(href, 1, i), c)
    THEN ToLowerCase(SubSeq(href, 1, i))
    ELSE ""

\* The scheme of href with its colon, lower-cased; "" when href has none.
Scheme(href) == SchemeAt(href, IndexOf(href, ":"))

SpecialSchemes == {"http:", "https:", "ftp:"}

\* The URL of "host/path" under a special scheme, given its host: the host
\* is lower-cased and must not be empty, an empty path is "/".
HostAndPath(protocol, hostAndPath, host) ==
    IF host = ""
    THEN InvalidURL
    ELSE [ok |-> TRUE, protocol |-> protocol,
          hostname |-> ToLowerCase(host),
          pathname |-> IF Len(host) = Len(hostAndPath)
                       THEN "/"
                       ELSE SubSeq(hostAndPath, Len(host) + 1, Len(hostAndPath))]

\* The URL of "host/path?query#fragment" under a special scheme.
FromAuthority(protocol, rest) ==
    HostAndPath(protocol, Pathname(rest), Before(Pathname(rest), "/"))

\* A string after its leading "//", if it has one.
AfterSlashes(s) == IF StartsWith(s, "//") THEN SubSeq(s, 3, Len(s)) ELSE s

\* new URL(url) for a url with the given scheme ("" for none)
ParseWithScheme(url, scheme) ==
    CASE scheme \in SpecialSchemes ->
             FromAuthority(scheme,
                           AfterSlashes(SubSeq(url, Len(scheme) + 1, Len(url))))
      [] scheme # "" /\ scheme \notin SpecialSchemes ->
             [ok |-> TRUE, protocol |-> scheme, hostname |-> "",
              pathname |-> Pathname(SubSeq(url, Len(scheme) + 1, Len(url)))]
      [] OTHER -> InvalidURL

\* new URL(url) for an absolute url
ParseURL(url) == ParseWithScheme(url, Scheme(url))

\* new URL(href, base), given the parsed base b and the scheme of href
Resolve(href, b, scheme) ==
    IF scheme # ""
    THEN ParseWithScheme(href, scheme)
    ELSE IF StartsWith(href, "//")
         THEN FromAuthority(b.protocol, AfterSlashes(href))
         ELSE IF StartsWith(href, "/")
              THEN [b EXCEPT !.pathname = Pathname(href)]
              ELSE [b EXCEPT !.pathname =
                        SubSeq(@, 1, LastIndexOf(@, "/")) \o Pathname(href)]

\* new URL(href, base)
NewURL(href, base) == Resolve(href, ParseURL(base), Scheme(href))

(***************************************************************************)
(* A fetched page, as cheerio presents it to analyzeSEO and analyzeLinks:  *)
(*   url       the analysed URL                                            *)
(*   anchors   the a[href] elements in document order, each with its raw   *)
(*             href and rel attributes ("" for a missing rel)              *)
(*   text      the part of $('body').text() that holds letters             *)
(*   padding   the number of further body characters, none of them a       *)
(*             letter                                                      *)
(*   keywords  the content of meta[name="keywords"] ("" when missing)      *)
(*   title     $('title').text()                                           *)
(*   head      the scripts of the document head                            *)
(***************************************************************************)
MaxLinks == 2

PageUrl == "https://example.com/blog/post"

Hrefs ==
    {"", "/about", "/about?ref=nav", "contact",
     "https://example.com/about", "http://other.com/",
     "https://other.com/news", "HTTPS://Other.com/News",
     "//cdn.other.net/lib.js", "https://www.facebook.com/page",
     "https://other.com/share?via=twitter", "ftp://files.facebook.com/f",
     "mailto:me@example.com", "http://", "//"}

Link(href) == [href |-> href, rel |-> ""]

Anchors ==
    {Link(href) : href \in Hrefs}
        \cup {[href |-> "/about", rel |-> "nofollow"],
              [href |-> "https://other.com/news", rel |-> "external nofollow"],
              [href |-> "http://other.com/", rel |-> "noopener noreferrer"],
              [href |-> "mailto:me@example.com", rel |-> "nofollow"],
              [href |-> "http://", rel |-> "nofollow noopener"],
              [href |-> "", rel |-> "nofollow"]}

RECURSIVE SeqsUpTo(_, _)
SeqsUpTo(S, n) ==
    IF n = 0
    THEN {<<>>}
    ELSE LET shorter == SeqsUpTo(S, n - 1)
         IN  shorter \cup {Append(s, x) : s \in shorter, x \in S}

\* n links to n distinct hosts
DistinctHosts(n) ==
    [i \in 1..n |-> Link("https://site" \o ToString(i) \o ".org/")]

\* Ten links: six same-host links with distinct paths, four other-host
\* links over two hostnames, one of them social, one carrying rel nofollow.
Example3Links ==
    <<Link("/"), Link("/about"), Link("/pricing"), Link("contact"),
      Link("https://example.com/team"), Link("/blog/archive?page=2"),
      Link("https://other.com/"),
      [href |-> "https://other.com/news", rel |-> "nofollow"],
      Link("https://other.com/press"), Link("https://www.facebook.com/page")>>

\* Ten external domains, three of them social.
Example5Links ==
    DistinctHosts(7) \o <<Link("https://www.facebook.com/page"),
                          Link("https://twitter.com/page"),
                          Link("https://www.linkedin.com/company/page")>>

FiveLinksOneDomain ==
    [i \in 1..5 |-> Link("https://other.com/page" \o ToString(i))]

Texts ==
    {"", "Nothing relevant here.", "We cover Technology and FINANCE news.",
     "A businessman likes seafood.", "Healthy travel"}

Keywords == {"", "Sports, Fashion"}

Titles == {"", "My blog", "Education Weekly"}

Heads ==
    {"", "<script async src='https://www.google-analytics.com/analytics.js'></script>",
     "<script>gtag('config', 'UA-1');</script>"}

Paddings == {0, 500, 39499, 39500, 39600, 50000, 69500, 69501, 100000, 150000}

BlankPage ==
    [url |-> PageUrl, anchors |-> <<>>, text |-> "", padding |-> 0,
     keywords |-> "", title |-> "", head |-> ""]

LinkPages ==
    {[BlankPage EXCEPT !.anchors = a] : a \in SeqsUpTo(Anchors, MaxLinks)}

TextPages ==
    {[BlankPage EXCEPT !.text = t, !.keywords = k, !.title = h] :
         t \in Texts, k \in Keywords, h \in Titles}

TrafficLinks ==
    {<<>>, <<Link("https://other.com/")>>, FiveLinksOneDomain,
     Example3Links, Example5Links, DistinctHosts(25), DistinctHosts(26)}

TrafficPages ==
    {[BlankPage EXCEPT !.anchors = a, !.padding = p, !.head = h] :
         a \in TrafficLinks, p \in Paddings, h \in Heads}

Pages == LinkPages \cup TextPages \cup TrafficPages

(***************************************************************************)
(* Link analysis of analyzeSEO.                                            *)
(***************************************************************************)
\* rel && rel.includes('nofollow')
IsNofollow(rel) == rel # "" /\ Includes(rel, "nofollow")

SocialPatterns ==
    {"facebook.com", "twitter.com", "instagram.com", "linkedin.com",
     "youtube.com", "pinterest.com"}

\* A lower-cased hostname holds one of the social patterns.
MatchesSocial(lowered) ==
    \E pattern \in SocialPatterns : Includes(lowered, pattern)

\* hostname.match(/facebook\.com|twitter\.com|.../i)
IsSocial(hostname) == MatchesSocial(ToLowerCase(hostname))

\* What the callback of $('a[href]').each does on one anchor: whether it
\* increments nofollowCount and socialCount, and what it adds to
\* internalLinks/internalPaths and to externalLinks/externalDomains (a
\* sequence of at most one string each).
NoEffect ==
    [nofollow |-> FALSE, social |-> FALSE, internal |-> <<>>, external |-> <<>>]

\* linkUrl resolved, on another host than the page, with a protocol that
\* starts with 'http'.
IsExternal(linkUrl, hostname) ==
    /\ linkUrl.ok
    /\ linkUrl.hostname # hostname
    /\ StartsWith(linkUrl.protocol, "http")

\* Mutant of Classify: a social hostname counts only on an external link.
ClassifySocialExternalOnly(a, linkUrl, hostname) ==
    [nofollow |-> IsNofollow(a.rel),
     social |-> IsExternal(linkUrl, hostname) /\ IsSocial(linkUrl.hostname),
     internal |-> IF linkUrl.ok
                  THEN IF linkUrl.hostname = hostname
                       THEN <<linkUrl.pathname>>
                       ELSE <<>>
                  ELSE IF StartsWith(a.href, "/") THEN <<a.href>> ELSE <<>>,
     external |-> IF IsExternal(linkUrl, hostname)
                  THEN <<linkUrl.hostname>>
                  ELSE <<>>]

\* Mutant of Classify: rel nofollow counts only on an external link.
ClassifyNofollowExternalOnly(a, linkUrl, hostname) ==
    [nofollow |-> IsExternal(linkUrl, hostname) /\ IsNofollow(a.rel),
     social |-> linkUrl.ok /\ IsSocial(linkUrl.hostname),
     internal |-> IF linkUrl.ok
                  THEN IF linkUrl.hostname = hostname
                       THEN <<linkUrl.pathname>>
                       ELSE <<>>
                  ELSE IF StartsWith(a.href, "/") THEN <<a.href>> ELSE <<>>,
     external |-> IF IsExternal(linkUrl, hostname)
                  THEN <<linkUrl.hostname>>
                  ELSE <<>>]

\* The callback on an anchor with a href, given linkUrl = new URL(href, url)
\* and the hostname of the page.
Classify(a, linkUrl, hostname) ==
    [nofollow |-> IsNofollow(a.rel),
     social |-> linkUrl.ok /\ IsSocial(linkUrl.hostname),
     internal |-> IF linkUrl.ok
                  THEN IF linkUrl.hostname = hostname
                       THEN <<linkUrl.pathname>>
                       ELSE <<>>
                  ELSE IF StartsWith(a.href, "/") THEN <<a.href>> ELSE <<>>,
     external |-> IF IsExternal(linkUrl, hostname)
                  THEN <<linkUrl.hostname>>
                  ELSE <<>>]

\* The callback of $('a[href]').each on anchor a.
EachLink(a, url) ==
    IF a.href = ""
    THEN NoEffect
    ELSE Classify(a, NewURL(a.href, url), ParseURL(url).hostname)

\* The strings pushed by a sequence of additions, in order.
Strings(pushing) == [i \in 1..Len(pushing) |-> pushing[i][1]]

Pushed(added) == Strings(SelectSeq(added, LAMBDA x : x # <<>>))

\* The counters and collections after the last anchor.
Collected(effects, internalPaths, externalDomains) ==
    [nofollowCount |-> Len(SelectSeq(effects, LAMBDA x : x.nofollow)),
     socialCount |-> Len(SelectSeq(effects, LAMBDA x : x.social)),
     internalLinks |-> {internalPaths[i] : i \in 1..Len(internalPaths)},
     internalPaths |-> internalPaths,
     externalLinks |-> {externalDomains[i] : i \in 1..Len(externalDomains)},
     externalDomains |-> externalDomains]

Collect(effects) ==
    Collected(effects,
              Pushed([i \in 1..Len(effects) |-> effects[i].internal]),
              Pushed([i \in 1..Len(effects) |-> effects[i].external]))

\* $('a[href]').each(...)
EachLinks(anchors, url) ==
    Collect([i \in 1..Len(anchors) |-> EachLink(anchors[i], url)])

\* $('a[href^="prefix"]').length
HrefStartsWith(anchors, prefix) ==
    Len(SelectSeq(anchors, LAMBDA a : StartsWith(a.href, prefix)))

\* The links object, given the collections c of the each loop.
Links(anchors, c) ==
    [internal |-> [total |-> HrefStartsWith(anchors, "/"),
                   unique |-> Cardinality(c.internalLinks),
                   paths |-> c.internalPaths],
     external |-> [total |-> HrefStartsWith(anchors, "http"),
                   unique |-> Cardinality(c.externalLinks),
                   social |-> c.socialCount,
                   nofollow |-> c.nofollowCount,
                   domains |-> c.externalDomains]]

\* The links object of the result.
LinkMetrics(page) == Links(page.anchors, EachLinks(page.anchors, page.url))

(***************************************************************************)
(* Niche detection and traffic estimate, in analyzeSEO and analyzeLinks.   *)
(***************************************************************************)
niches ==
    <<"technology", "health", "finance", "education", "entertainment",
      "travel", "food", "fashion", "sports", "business">>

\* niches.filter(...) on the three searched strings
Filter(pageText, metaKeywords, title) ==
    SelectSeq(niches,
              LAMBDA niche : \/ Includes(pageText, niche)
                             \/ Includes(metaKeywords, niche)
                             \/ Includes(title, niche))

\* Mutant of DetectedNiches: the title is searched as written.
DetectedNichesTitleAsWritten(page) ==
    Filter(ToLowerCase(page.text), ToLowerCase(page.keywords), page.title)

\* detectedNiches: the body text carries its letters in page.text.
DetectedNiches(page) ==
    Filter(ToLowerCase(page.text), ToLowerCase(page.keywords),
           ToLowerCase(page.title))

\* detectedNiches.length > 0 ? detectedNiches : ['unknown']
OrUnknown(detectedNiches) ==
    IF Len(detectedNiches) > 0 THEN detectedNiches ELSE <<"unknown">>

Niche(page) == OrUnknown(DetectedNiches(page))

\* content.length
ContentLength(page) == Len(page.text) + page.padding

\* html.includes(marker): the markup between the texts and attribute values
\* of the page holds no part of a marker.
HtmlIncludes(page, marker) ==
    \/ \E piece \in {page.head, page.text, page.keywords, page.title} :
           Includes(piece, marker)
    \/ \E i \in 1..Len(page.anchors) :
           \/ Includes(page.anchors[i].href, marker)
           \/ Includes(page.anchors[i].rel, marker)

HasAnalytics(page) ==
    HtmlIncludes(page, "google-analytics") \/ HtmlIncludes(page, "gtag")

\* trafficScore is a multiple of 1/1000: the operators below hold it as
\* thousandths.
Thousand == 1000

\* Mutant of TrafficScore: the sum is returned without the final
\* Math.min(100, trafficScore).
TrafficScoreUnclamped(contentLength, linkCount, socialCount, hasAnalytics) ==
    Min(100 * Thousand, contentLength)
        + Thousand * (Min(50, linkCount * 2) + socialCount * 10
                      + IF hasAnalytics THEN 30 ELSE 0)

\* trafficScore after its four summands and the final clamp, in thousandths.
TrafficScore(contentLength, linkCount, socialCount, hasAnalytics) ==
    Min(100 * Thousand,
        Min(100 * Thousand, contentLength)
            + Thousand * (Min(50, linkCount * 2) + socialCount * 10
                          + IF hasAnalytics THEN 30 ELSE 0))

TrafficLevel(trafficScore) ==
    IF trafficScore < 40 * Thousand
    THEN "low"
    ELSE IF trafficScore < 70 * Thousand THEN "medium" ELSE "high"

Traffic(trafficScore) ==
    [score |-> MathRound(trafficScore, Thousand),
     level |-> TrafficLevel(trafficScore)]

\* The link, traffic and niche fields of the object analyzeSEO returns,
\* given its links object.
SEOResult(page, links) ==
    [links |-> links,
     traffic |-> Traffic(TrafficScore(ContentLength(page),
                                      links.external.unique,
                                      links.external.social,
                                      HasAnalytics(page))),
     niche |-> Niche(page)]

\* analyzeSEO on a fetched page.
analyzeSEO(page) == SEOResult(page, LinkMetrics(page))

(***************************************************************************)
(* analyzeLinks on the page it fetched.                                    *)
(***************************************************************************)
\* $('a[href^="http"]')
allLinks(page) == SelectSeq(page.anchors, LAMBDA a : StartsWith(a.href, "http"))

\* $('a[href*="facebook"], a[href*="twitter"], a[href*="instagram"],
\*    a[href*="linkedin"]').length
socialLinks(page) ==
    Len(SelectSeq(page.anchors,
                  LAMBDA a : \E word \in {"facebook", "twitter", "instagram",
                                          "linkedin"} : Includes(a.href, word)))

\* The object analyzeLinks returns, given allLinks and the nofollow count.
LinkAnalysis(page, links, nofollow) ==
    [backlinks |-> [total |-> Len(links),
                    dofollow |-> Len(links) - nofollow,
                    nofollow |-> nofollow],
     niche |-> Niche(page),
     traffic |-> Traffic(TrafficScore(ContentLength(page), Len(links),
                                      socialLinks(page), HasAnalytics(page)))]

analyzeLinks(page) ==
    LinkAnalysis(page, allLinks(page),
                 Len(SelectSeq(allLinks(page), LAMBDA a : IsNofollow(a.rel))))

(***************************************************************************)
(* Fetching, in the three revisions of analyzeSEO: seoAnalyzer.ts (one     *)
(* proxy, then a sitemap probe, a 404 probe and analyzeLinks), part_003    *)
(* (proxy list, then analyzeLinks) and part_004 (proxy list only).         *)
(*                                                                         *)
(* A JavaScript value read from a response is undefined, a string or an    *)
(* object with a contents property.                                        *)
(***************************************************************************)
Undefined == [type |-> "undefined"]

Str(s) == [type |-> "string", value |-> s]

Obj(contents) == [type |-> "object", contents |-> contents]

\* !!v
IsTruthy(v) == v.type = "object" \/ (v.type = "string" /\ v.value # "")

\* v.contents
Contents(v) == IF v.type = "object" THEN v.contents ELSE Undefined

CORS_PROXY == "https://api.allorigins.win/get?url="

CORS_PROXIES ==
    <<"https://api.allorigins.win/get?url=",
      "https://cors-anywhere.herokuapp.com/",
      "https://cors.bridged.cc/">>

Files == {"seoAnalyzer.ts", "part_003", "part_004"}

Urls == {"https://example.com/blog/post", "example.com", "http://"}

\* Date.now() at the 404 probe
Timestamps == {"1700000000000", "1700000000001"}

Html == "<html><head><title>Example</title></head><body>Hello</body></html>"

SitemapXml == "<?xml version='1.0'?><urlset></urlset>"

\* s repeated 2^n times
RECURSIVE Doubled(_, _)
Doubled(s, n) == IF n = 0 THEN s ELSE Doubled(s \o s, n - 1)

\* An error page of more than 500 characters.
NotFoundPage == "<html><body>" \o Doubled("Not found. ", 6) \o "</body></html>"

\* response.data as the allorigins proxy sends it (an empty body, or JSON
\* with or without a contents string) and as a pass-through proxy sends it
\* (the body of the page).
AllOriginsData ==
    {Str(""), Obj(Undefined), Obj(Str("")), Obj(Str(Html)),
     Obj(Str(SitemapXml)), Obj(Str(NotFoundPage))}

PassThroughData == {Str(""), Str(Html)}

DataOf(proxy) ==
    IF Includes(proxy, "allorigins") THEN AllOriginsData ELSE PassThroughData

\* What axios.get can end with: a network error, a timeout, or a response
\* with a status and data.
Responses(proxy) ==
    {[kind |-> "error", status |-> 0, data |-> Str("")],
     [kind |-> "timeout", status |-> 0, data |-> Str("")]}
        \cup [kind : {"response"}, status : {200, 404, 500}, data : DataOf(proxy)]

\* axios.get resolves: a response arrived and validateStatus accepts it
\* (only200: status === 200; otherwise validateStatus: null, any status).
Resolves(response, only200) ==
    response.kind = "response" /\ (only200 => response.status = 200)

\* error.message of the error axios.get rejects with
AxiosMessage(response, timeout) ==
    CASE response.kind = "error" -> "Network Error"
      [] response.kind = "timeout" -> "timeout of " \o timeout \o "ms exceeded"
      [] OTHER -> "Request failed with status code " \o ToString(response.status)

\* encodeURIComponent on one character of the URLs drawn here
EncodeChar(c) ==
    CASE c = ":" -> "%3A" [] c = "/" -> "%2F" [] c = "?" -> "%3F"
      [] c = "=" -> "%3D" [] c = "#" -> "%23" [] c = " " -> "%20"
      [] OTHER -> c

RECURSIVE EncodeFrom(_, _)
EncodeFrom(s, i) ==
    IF i > Len(s) THEN "" ELSE EncodeChar(SubSeq(s, i, i)) \o EncodeFrom(s, i + 1)

encodeURIComponent(s) == EncodeFrom(s, 1)

\* new URL(path, url).href
Href(u) == u.protocol \o "//" \o u.hostname \o u.pathname

\* One entry of the request log: the URL axios.get was called with, what
\* the request is for, and how it ended.
Request(purpose, url, response) ==
    [purpose |-> purpose, url |-> url, response |-> response]

InvalidUrlMessage ==
    "Invalid URL format. Please enter a valid URL including http:// or https://"

FailedToFetchMessage ==
    "Failed to fetch website content. The site might be too large or blocking our request."

\* The error analyzeSEO rejects with when message is thrown inside its try
\* block: part_004 rethrows the error, the other revisions wrap it.
Rejection(file, message) ==
    [error |-> IF file = "part_004"
               THEN message
               ELSE "SEO analysis failed: " \o message]

\* The locals of analyzeSEO: i the position in CORS_PROXIES of the next
\* proxy, html and proxyUsed as assigned by the fetch, and the two flags
\* of contentAnalysis the probes set.
NoLocals ==
    [i |-> 1, html |-> Str(""), proxyUsed |-> "",
     hasSitemap |-> FALSE, hasCustom404 |-> FALSE]

\* The value analyzeSEO resolves with, as far as the fetches decide it.
Analysis(locals) ==
    [html |-> locals.html.value, proxyUsed |-> locals.proxyUsed,
     hasSitemap |-> locals.hasSitemap, hasCustom404 |-> locals.hasCustom404]

\* Mutant of IsValidUrl: every string passes the validation.
IsValidUrlAnyString(url) == url = url

\* new URL(url) does not throw
IsValidUrl(url) == ParseURL(url).ok

\* Mutant of ProxyAnswered: the loop never breaks.
ProxyAnsweredNever(response) == response # response

\* The proxy loop breaks on this response: axios.get resolved (status 200)
\* and response.data is truthy.
ProxyAnswered(response) == Resolves(response, TRUE) /\ IsTruthy(response.data)

\* html as the proxy loop assigns it from the data of the given proxy
HtmlFrom(proxy, data) ==
    IF Includes(proxy, "allorigins") THEN Contents(data) ELSE data

\* The locals after the proxy at position locals.i ended with response.
AfterProxy(locals, proxy, response) ==
    IF ProxyAnswered(response)
    THEN [locals EXCEPT !.html = HtmlFrom(proxy, response.data),
                        !.proxyUsed = proxy]
    ELSE IF locals.i < Len(CORS_PROXIES)
         THEN [locals EXCEPT !.i = @ + 1]
         ELSE locals

\* The proxy loop is over after this response: a break, or the last proxy.
LoopOver(locals, response) ==
    ProxyAnswered(response) \/ locals.i = Len(CORS_PROXIES)

\* Where analyzeSEO stands after the proxy loop ended with these locals.
AfterLoop(file, locals) ==
    IF ~ IsTruthy(locals.html)
    THEN "rejected"
    ELSE IF file = "part_003" THEN "analyzeLinks" ELSE "resolved"

\* Mutant of FetchFailure: only the status of the response is checked.
FetchFailureStatusOnly(response) ==
    IF ~ Resolves(response, TRUE)
    THEN AxiosMessage(response, "30000")
    ELSE ""

\* The message thrown on the response of the single proxy of
\* seoAnalyzer.ts, "" when the page was fetched.
FetchFailure(response) ==
    IF ~ Resolves(response, TRUE)
    THEN AxiosMessage(response, "30000")
    ELSE IF ~ IsTruthy(response.data) \/ ~ IsTruthy(Contents(response.data))
         THEN "Failed to fetch website content"
         ELSE IF Contents(response.data).type # "string"
              THEN "Invalid website content received"
              ELSE ""

\* Mutant of HasSitemap: the sitemap request accepts every status.
HasSitemapAnyStatus(before, response) ==
    IF response.kind = "response" /\ Contents(response.data).type = "string"
    THEN Includes(Contents(response.data).value, "<?xml")
    ELSE before

\* contentAnalysis.hasSitemap after the sitemap probe: a rejected request
\* and the TypeError of reading includes on undefined are swallowed.
HasSitemap(before, response) ==
    IF Resolves(response, TRUE) /\ Contents(response.data).type = "string"
    THEN Includes(Contents(response.data).value, "<?xml")
    ELSE before

\* contentAnalysis.hasCustom404 after the 404 probe (validateStatus: null):
\* with status 404 the TypeError of reading length on undefined is
\* swallowed.
HasCustom404(before, response) ==
    IF response.kind # "response"
    THEN before
    ELSE IF response.status # 404
         THEN FALSE
         ELSE IF Contents(response.data).type = "string"
              THEN Len(Contents(response.data).value) > 500
              ELSE before

\* Mutant of LinkFailure: analyzeSEO goes on without the link analysis.
LinkFailureAbsorbed(response, loads) == ""

\* The message analyzeLinks throws on this response, "" when it returns;
\* loads: cheerio.load accepts an html that is not a string.
LinkFailure(response, loads) ==
    IF ~ Resolves(response, TRUE)
    THEN "Link analysis failed: " \o AxiosMessage(response, "0")
    ELSE IF Contents(response.data).type # "string" /\ ~ loads
         THEN "Link analysis failed: cheerio.load() expects a string"
         ELSE ""

(***************************************************************************)
(* The App component (src/src/App.tsx, and the revisions part_001 and      *)
(* part_000): its React state and what handleAnalyze does to it.           *)
(***************************************************************************)
Null == [type |-> "null"]

\* The state of the component when it mounts.
useState ==
    [url |-> "", loading |-> FALSE, analysis |-> Null, error |-> Str("")]

AppFiles == {"App.tsx", "part_001", "part_000"}

\* What the user can have typed into the url input.
AppUrls == {"", "https://example.com/blog/post", "example.com"}

\* The values of the url input that new URL accepts.
ValidUrls == {url \in AppUrls : IsValidUrl(url)}

MaxRequests == 3

\* The SEOAnalysis objects analyzeSEO can resolve with (the page may have
\* changed between two requests).
Results ==
    {[type |-> "object", title |-> title] :
         title \in {"Example", "Example (updated)"}}

\* new Error(message)
Error(message) == [type |-> "Error", message |-> message]

\* How the promise analyzeSEO(url) can settle: an url that new URL rejects
\* is rejected with the validation message, any other resolves with a result
\* or is rejected with the message of a failed fetch.
Outcomes(url) ==
    IF url \in ValidUrls
    THEN [kind : {"resolved"}, value : Results]
             \cup [kind : {"rejected"},
                   value : {Error("SEO analysis failed: Network Error")}]
    ELSE [kind : {"rejected"},
          value : {Error("SEO analysis failed: " \o InvalidUrlMessage)}]

\* Mutant of Disabled: the submit button is never disabled.
DisabledNever(state) == state.loading /\ ~ state.loading

\* The submit button is disabled.
Disabled(state) == state.loading

\* The browser lets the form be submitted: the submit button is enabled and
\* the url input (type url, required) holds a valid value.
CanSubmit(state) ==
    /\ ~ Disabled(state)
    /\ state.url # ""
    /\ state.url \in ValidUrls

\* if (!url) return;
ReturnsAtOnce(file, state) == file = "App.tsx" /\ state.url = ""

\* Mutant of Started: the result on display is not cleared.
StartedKeepingAnalysis(file, state) ==
    [state EXCEPT !.loading = TRUE, !.error = Str("")]

\* The state after the statements of handleAnalyze before the await.
Started(file, state) ==
    IF file = "App.tsx"
    THEN [state EXCEPT !.loading = TRUE, !.error = Null, !.analysis = Null]
    ELSE [state EXCEPT !.loading = TRUE, !.error = Str("")]

\* The state after handleAnalyze ran up to its await or its return.
Called(file, state) ==
    IF ReturnsAtOnce(file, state) THEN state ELSE Started(file, state)

\* The entry of the new invocation in calls: the url it passes to
\* analyzeSEO, how far it is (pending on the await, returned before it,
\* resolved, rejected), what analyzeSEO settled with, and its position in
\* the order of settlements.
Invocation(file, state) ==
    [url |-> state.url,
     status |-> IF ReturnsAtOnce(file, state) THEN "returned" ELSE "pending",
     outcome |-> Undefined,
     order |-> 0]

\* The number of invocations whose promise has settled.
SettledSoFar(log) ==
    Len(SelectSeq(log, LAMBDA c : c.status \in {"resolved", "rejected"}))

Settle(call, outcome, order) ==
    [call EXCEPT !.status = outcome.kind, !.outcome = outcome.value,
                 !.order = order]

\* Mutant of AfterResolve: a result that arrives when nothing is loading is
\* dropped.
AfterResolveWhileLoading(state, result) ==
    IF state.loading
    THEN [state EXCEPT !.analysis = result, !.loading = FALSE]
    ELSE state

\* setAnalysis(result), then setLoading(false) in finally
AfterResolve(state, result) ==
    [state EXCEPT !.analysis = result, !.loading = FALSE]

\* err instanceof Error ? err.message : '...'
ErrorMessage(file, err) ==
    IF err.type = "Error"
    THEN err.message
    ELSE IF file = "App.tsx"
         THEN "Analysis failed. Please try again."
         ELSE "Failed to analyze website. Please try again."

\* Mutant of AfterReject: loading is not reset after a failure.
AfterRejectStillLoading(state, message) ==
    [state EXCEPT !.error = Str(message)]

\* setError(...), then setLoading(false) in finally
AfterReject(state, message) ==
    [state EXCEPT !.error = Str(message), !.loading = FALSE]

(***************************************************************************)
(* One call of a scoring function.  fn is the function called, args its    *)
(* argument, pc the caller's position ("call": about to call, "return":    *)
(* ret holds what the function returned).                                  *)
(***************************************************************************)
Init ==
    /\ pc = "call"
    /\ ret = NoResult
    /\ requests = <<>>
    /\ local = NoLocals
    /\ calls = <<>>
    /\ app = useState
    /\ \/ fn = "calculateSEOScore" /\ args \in SEOInputs
       \/ fn = "calculateContentScore" /\ args \in ContentInputs
       \/ fn = "calculatePerformanceScore" /\ args \in PerformanceInputs
       \/ fn = "calculatePerformanceScoreTiered" /\ args \in PerformanceInputs

CalculateSEOScore ==
    /\ pc = "call"
    /\ fn = "calculateSEOScore"
    /\ ret' = calculateSEOScore(args)
    /\ pc' = "return"
    /\ UNCHANGED <<fn, args, requests, local, calls, app>>

CalculateContentScore ==
    /\ pc = "call"
    /\ fn = "calculateContentScore"
    /\ ret' = calculateContentScore(args.contentAnalysis, args.accessibility)
    /\ pc' = "return"
    /\ UNCHANGED <<fn, args, requests, local, calls, app>>

CalculatePerformanceScore ==
    /\ pc = "call"
    /\ fn = "calculatePerformanceScore"
    /\ ret' = calculatePerformanceScore(args)
    /\ pc' = "return"
    /\ UNCHANGED <<fn, args, requests, local, calls, app>>

CalculatePerformanceScoreTiered ==
    /\ pc = "call"
    /\ fn = "calculatePerformanceScoreTiered"
    /\ ret' = calculatePerformanceScoreTiered(args)
    /\ pc' = "return"
    /\ UNCHANGED <<fn, args, requests, local, calls, app>>

Next ==
    \/ CalculateSEOScore
    \/ CalculateContentScore
    \/ CalculatePerformanceScore
    \/ CalculatePerformanceScoreTiered

Spec == Init /\ [][Next]_vars

(***************************************************************************)
(* Several calls of the scoring functions in a row, as successive analyses *)
(* make them.  calls holds the calls that have returned (function,         *)
(* argument as it is after the call, result).                              *)
(***************************************************************************)
MaxCalls == 3

RepeatSEOInputs ==
    [title : {NoString, 45},
     description : {160},
     headings : {[h1 |-> 1, h2 |-> 1, h3 |-> 0]},
     images : {[total |-> 0, withoutAlt |-> 0], [total |-> 4, withoutAlt |-> 1]},
     meta : {[hasViewport |-> TRUE, hasCharset |-> FALSE,
              keywords |-> NoString, ogTags |-> {}]}]

RepeatContentInputs ==
    [contentAnalysis :
         [wordCount : {0, 301}, textToHtmlRatio : {1001},
          hasSchema : {FALSE}, hasCanonical : {TRUE}, hasSitemap : {TRUE},
          hasSSL : BOOLEAN, mobileResponsive : {TRUE}, hasFavicon : {TRUE},
          hasCustom404 : {FALSE}],
     accessibility :
         [hasAriaLabels : {TRUE}, hasAltText : {TRUE}, hasSkipLinks : {FALSE},
          hasLangAttribute : {TRUE}, hasAccessibleForms : {TRUE}]]

RepeatPerformanceInputs ==
    [htmlSize : {0, 150001}, loadTime : {0, 3001}, cssFiles : {6},
     jsFiles : {11}, inlineStyles : {0}, inlineScripts : {0}]

\* The function and the argument of one call.
RepeatInputs ==
    [fn : {"calculateSEOScore"}, args : RepeatSEOInputs]
        \cup [fn : {"calculateContentScore"}, args : RepeatContentInputs]
        \cup [fn : {"calculatePerformanceScore",
                    "calculatePerformanceScoreTiered"},
              args : RepeatPerformanceInputs]

InitRepeat ==
    /\ pc = "call"
    /\ ret = NoResult
    /\ requests = <<>>
    /\ local = NoLocals
    /\ calls = <<>>
    /\ app = useState
    /\ \E input \in RepeatInputs : fn = input.fn /\ args = input.args

\* The call has returned and the next one is made.
CallAgain ==
    /\ pc = "return"
    /\ Len(calls) + 1 < MaxCalls
    /\ calls' = Append(calls, [fn |-> fn, args |-> args, ret |-> ret])
    /\ \E input \in RepeatInputs : fn' = input.fn /\ args' = input.args
    /\ pc' = "call"
    /\ UNCHANGED <<ret, requests, local, app>>

NextRepeat ==
    \/ CalculateSEOScore
    \/ CalculateContentScore
    \/ CalculatePerformanceScore
    \/ CalculatePerformanceScoreTiered
    \/ CallAgain

SpecRepeat == InitRepeat /\ [][NextRepeat]_vars

(***************************************************************************)
(* The analysis of one fetched page.  Init is the state after cheerio has  *)
(* loaded the page (pc = "loaded", args the page); fn is the function that *)
(* fetched it.                                                             *)
(***************************************************************************)
InitPage ==
    /\ pc = "loaded"
    /\ ret = NoResult
    /\ fn \in {"analyzeSEO", "analyzeLinks"}
    /\ args \in Pages
    /\ requests = <<>>
    /\ local = NoLocals
    /\ calls = <<>>
    /\ app = useState

AnalyzeSEO ==
    /\ pc = "loaded"
    /\ fn = "analyzeSEO"
    /\ ret' = analyzeSEO(args)
    /\ pc' = "return"
    /\ UNCHANGED <<fn, args, requests, local, calls, app>>

AnalyzeLinks ==
    /\ pc = "loaded"
    /\ fn = "analyzeLinks"
    /\ ret' = analyzeLinks(args)
    /\ pc' = "return"
    /\ UNCHANGED <<fn, args, requests, local, calls, app>>

NextPage ==
    \/ AnalyzeSEO
    \/ AnalyzeLinks

SpecPage == InitPage /\ [][NextPage]_vars

(***************************************************************************)
(* One call of analyzeSEO(url), from the validation of url to the promise  *)
(* being resolved or rejected.  Every action is the code between two       *)
(* awaits: it issues one request, takes one of the ways the request can    *)
(* end, and runs on to the next request or to the end of the call.         *)
(* requests logs every axios.get in the order it was issued.               *)
(***************************************************************************)
InitFetch ==
    /\ pc = "validate"
    /\ fn = "analyzeSEO"
    /\ args \in [file : Files, url : Urls]
    /\ ret = NoResult
    /\ requests = <<>>
    /\ local = NoLocals
    /\ calls = <<>>
    /\ app = useState

ValidateURL ==
    /\ pc = "validate"
    /\ pc' = IF IsValidUrl(args.url) THEN "fetch" ELSE "rejected"
    /\ ret' = IF IsValidUrl(args.url)
              THEN ret
              ELSE Rejection(args.file, InvalidUrlMessage)
    /\ UNCHANGED <<fn, args, requests, local, calls, app>>

\* One round of the loop over CORS_PROXIES (part_003, part_004), and the
\* code after the loop when the round ends it.
TryProxy ==
    /\ pc = "fetch"
    /\ args.file \in {"part_003", "part_004"}
    /\ \E response \in Responses(CORS_PROXIES[local.i]) :
           /\ requests' = Append(requests,
                  Request("page",
                          CORS_PROXIES[local.i] \o encodeURIComponent(args.url),
                          response))
           /\ local' = AfterProxy(local, CORS_PROXIES[local.i], response)
           /\ pc' = IF LoopOver(local, response)
                    THEN AfterLoop(args.file, local')
                    ELSE "fetch"
           /\ ret' = IF LoopOver(local, response)
                     THEN CASE AfterLoop(args.file, local') = "rejected" ->
                                   Rejection(args.file, FailedToFetchMessage)
                            [] AfterLoop(args.file, local') = "resolved" ->
                                   Analysis(local')
                            [] OTHER -> ret
                     ELSE ret
    /\ UNCHANGED <<fn, args, calls, app>>

\* The fetch of the page through CORS_PROXY (seoAnalyzer.ts) and the checks
\* of what came back.
FetchPage ==
    /\ pc = "fetch"
    /\ args.file = "seoAnalyzer.ts"
    /\ \E response \in Responses(CORS_PROXY) :
           /\ requests' = Append(requests,
                  Request("page", CORS_PROXY \o encodeURIComponent(args.url),
                          response))
           /\ IF FetchFailure(response) = ""
              THEN /\ local' = [local EXCEPT !.html = Contents(response.data),
                                             !.proxyUsed = CORS_PROXY]
                   /\ pc' = "sitemap"
                   /\ ret' = ret
              ELSE /\ local' = local
                   /\ pc' = "rejected"
                   /\ ret' = Rejection(args.file, FetchFailure(response))
    /\ UNCHANGED <<fn, args, calls, app>>

ProbeSitemap ==
    /\ pc = "sitemap"
    /\ \E response \in Responses(CORS_PROXY) :
           /\ requests' = Append(requests,
                  Request("sitemap",
                          CORS_PROXY \o encodeURIComponent(
                              Href(NewURL("/sitemap.xml", args.url))),
                          response))
           /\ local' = [local EXCEPT !.hasSitemap = HasSitemap(@, response)]
    /\ pc' = "notFound"
    /\ UNCHANGED <<fn, args, ret, calls, app>>

ProbeNotFound ==
    /\ pc = "notFound"
    /\ \E response \in Responses(CORS_PROXY), now \in Timestamps :
           /\ requests' = Append(requests,
                  Request("notFound",
                          CORS_PROXY \o encodeURIComponent(
                              Href(NewURL("/page-that-does-not-exist-" \o now,
                                          args.url))),
                          response))
           /\ local' = [local EXCEPT !.hasCustom404 = HasCustom404(@, response)]
    /\ pc' = "analyzeLinks"
    /\ UNCHANGED <<fn, args, ret, calls, app>>

\* await analyzeLinks(url) (seoAnalyzer.ts, part_003): its request, which
\* sets no timeout, and the end of the call.
CallAnalyzeLinks ==
    /\ pc = "analyzeLinks"
    /\ \E response \in {r \in Responses(CORS_PROXY) : r.kind # "timeout"},
          loads \in BOOLEAN :
           /\ requests' = Append(requests,
                  Request("links", CORS_PROXY \o encodeURIComponent(args.url),
                          response))
           /\ IF LinkFailure(response, loads) = ""
              THEN /\ pc' = "resolved"
                   /\ ret' = Analysis(local)
              ELSE /\ pc' = "rejected"
                   /\ ret' = Rejection(args.file, LinkFailure(response, loads))
    /\ UNCHANGED <<fn, args, local, calls, app>>

NextFetch ==
    \/ ValidateURL
    \/ TryProxy
    \/ FetchPage
    \/ ProbeSitemap
    \/ ProbeNotFound
    \/ CallAnalyzeLinks

SpecFetch == InitFetch /\ [][NextFetch]_vars

(***************************************************************************)
(* The App component while it is mounted.  args.file is the revision, app  *)
(* the React state, calls the invocations of handleAnalyze so far.  In     *)
(* SpecApp handleAnalyze runs when the user submits the form; in           *)
(* SpecHandler it is a function any caller may invoke at any time.  The    *)
(* await of analyzeSEO cuts handleAnalyze in two steps: the call, and the  *)
(* continuation when the promise resolves or rejects.  An invocation       *)
(* passes the url of the render it was created in, so a later setUrl does  *)
(* not reach a pending one.                                                *)
(***************************************************************************)
InitApp ==
    /\ pc = "mounted"
    /\ fn = "handleAnalyze"
    /\ args \in [file : AppFiles]
    /\ ret = NoResult
    /\ requests = <<>>
    /\ local = NoLocals
    /\ calls = <<>>
    /\ app = useState

\* onChange of the url input
SetUrl ==
    /\ pc = "mounted"
    /\ \E value \in AppUrls \ {app.url} : app' = [app EXCEPT !.url = value]
    /\ UNCHANGED <<fn, args, ret, pc, requests, local, calls>>

\* onSubmit of the form
Submit ==
    /\ pc = "mounted"
    /\ Len(calls) < MaxRequests
    /\ CanSubmit(app)
    /\ app' = Called(args.file, app)
    /\ calls' = Append(calls, Invocation(args.file, app))
    /\ UNCHANGED <<fn, args, ret, pc, requests, local>>

\* handleAnalyze called directly
HandleAnalyze ==
    /\ pc = "mounted"
    /\ Len(calls) < MaxRequests
    /\ app' = Called(args.file, app)
    /\ calls' = Append(calls, Invocation(args.file, app))
    /\ UNCHANGED <<fn, args, ret, pc, requests, local>>

\* analyzeSEO resolved: the rest of the try block and finally
Fulfil ==
    /\ pc = "mounted"
    /\ \E i \in DOMAIN calls :
           /\ calls[i].status = "pending"
           /\ \E outcome \in Outcomes(calls[i].url) :
                  /\ outcome.kind = "resolved"
                  /\ app' = AfterResolve(app, outcome.value)
                  /\ calls' = [calls EXCEPT
                                   ![i] = Settle(@, outcome, SettledSoFar(calls) + 1)]
    /\ UNCHANGED <<fn, args, ret, pc, requests, local>>

\* analyzeSEO rejected: the catch block and finally
Reject ==
    /\ pc = "mounted"
    /\ \E i \in DOMAIN calls :
           /\ calls[i].status = "pending"
           /\ \E outcome \in Outcomes(calls[i].url) :
                  /\ outcome.kind = "rejected"
                  /\ app' = AfterReject(app, ErrorMessage(args.file, outcome.value))
                  /\ calls' = [calls EXCEPT
                                   ![i] = Settle(@, outcome, SettledSoFar(calls) + 1)]
    /\ UNCHANGED <<fn, args, ret, pc, requests, local>>

NextApp ==
    \/ SetUrl
    \/ Submit
    \/ Fulfil
    \/ Reject

SpecApp == InitApp /\ [][NextApp]_vars

NextHandler ==
    \/ SetUrl
    \/ HandleAnalyze
    \/ Fulfil
    \/ Reject

SpecHandler == InitApp /\ [][NextHandler]_vars

\* Every promise of analyzeSEO settles.
SpecHandlerSettling == SpecHandler /\ WF_vars(Fulfil) /\ WF_vars(Reject)

(***************************************************************************)
(* Properties.  Returned(f): the call of f has returned and ret holds its  *)
(* result.                                                                 *)
(***************************************************************************)
Returned(f) == pc = "return" /\ fn = f

\* C1: for every input with counts >= 0 and images.withoutAlt <= images.total
\* the score returned by calculatePerformanceScore (capped penalties), by
\* calculateSEOScore and by calculateContentScore is an integer in 0..100.
C1_ScoreInRange ==
    (pc = "return" /\ fn \in {"calculatePerformanceScore", "calculateSEOScore",
                              "calculateContentScore"})
        => ret.score \in 0..100

\* C1 witness: calculateSEOScore has returned the top score 100 (every check
\* passes), calculated from an input with images.
C1_Witness ==
    /\ Returned("calculateSEOScore")
    /\ args.images.total > 0
    /\ ret.score = 100

\* The 4-tier threshold function the specification gives for a score.
FourTierRating(score) ==
    IF score >= 80 THEN "excellent"
    ELSE IF score >= 60 THEN "good"
    ELSE IF score >= 40 THEN "fair"
    ELSE "poor"

\* C2 (as claimed): the rating calculateSEOScore returns is the 4-tier
\* threshold function of the score it returns: excellent iff score >= 80,
\* good iff 60 <= score < 80, fair iff 40 <= score < 60, poor iff score < 40.
C2_RatingOfReturnedScore ==
    Returned("calculateSEOScore") => ret.rating = FourTierRating(ret.score)

FractionalAltScore(data) ==
    /\ data.images.total > 0
    /\ ((data.images.total - data.images.withoutAlt) * 20) % data.images.total # 0

C3_Witness79 ==
    Returned("calculateSEOScore") /\ ret.score = 79 /\ ret.rating = "good"

\* C4: the rating of calculatePerformanceScore (capped penalties) is poor iff
\* the returned score is below 50, fair iff it is at least 50 and below 80,
\* good iff it is at least 80.
C4_PerformanceRating ==
    Returned("calculatePerformanceScore")
        => /\ ret.rating = "poor" <=> ret.score < 50
           /\ ret.rating = "fair" <=> (ret.score >= 50 /\ ret.score < 80)
           /\ ret.rating = "good" <=> ret.score >= 80

\* C4 witness: a score of 49 has been returned and rated poor (50, rated fair,
\* is reached too: C4_Witness50).
C4_Witness ==
    Returned("calculatePerformanceScore") /\ ret.score = 49 /\ ret.rating = "poor"

C4_Witness50 ==
    Returned("calculatePerformanceScore") /\ ret.score = 50 /\ ret.rating = "fair"

\* Truthiness as the claims word it: the string is present and not empty.
Present(len) == len # NoString /\ len # 0

\* The number of checks of the SEO block the input does not pass: title,
\* description, single H1, H2 present, H3 present, image alt text, viewport,
\* charset, keywords, Open Graph.
Count(failed) == IF failed THEN 1 ELSE 0

FailingSEOChecks(data) ==
    Count(~(Present(data.title) /\ data.title >= 30 /\ data.title <= 60))
    + Count(~(Present(data.description) /\ data.description >= 120
              /\ data.description <= 160))
    + Count(data.headings.h1 # 1)
    + Count(data.headings.h2 = 0)
    + Count(data.headings.h3 = 0)
    + Count(data.images.withoutAlt > 0)
    + Count(~data.meta.hasViewport)
    + Count(~data.meta.hasCharset)
    + Count(~Present(data.meta.keywords))
    + Count(data.meta.ogTags = {})

\* C5 (as claimed): the suggestions list of calculateSEOScore has one entry
\* per check of the block that did not pass, and is empty when every check
\* passes.
C5_SuggestionPerFailingCheck ==
    Returned("calculateSEOScore")
        => Len(ret.suggestions) = FailingSEOChecks(args)

\* The points and the suggestions C6 lists for calculateContentScore, check by
\* check.
ContentPoints(a) ==
    (IF a.contentAnalysis.wordCount > 300 THEN 10 ELSE 0)
    + (IF a.contentAnalysis.textToHtmlRatio > 1000 THEN 10 ELSE 0)
    + (IF a.contentAnalysis.hasSchema THEN 10 ELSE 0)
    + (IF a.contentAnalysis.hasCanonical THEN 5 ELSE 0)
    + (IF a.contentAnalysis.hasSitemap THEN 5 ELSE 0)
    + (IF a.contentAnalysis.hasSSL THEN 10 ELSE 0)
    + (IF a.contentAnalysis.mobileResponsive THEN 10 ELSE 0)
    + (IF a.contentAnalysis.hasFavicon THEN 5 ELSE 0)
    + (IF a.contentAnalysis.hasCustom404 THEN 5 ELSE 0)
    + (IF a.accessibility.hasAriaLabels THEN 6 ELSE 0)
    + (IF a.accessibility.hasAltText THEN 6 ELSE 0)
    + (IF a.accessibility.hasSkipLinks THEN 6 ELSE 0)
    + (IF a.accessibility.hasLangAttribute THEN 6 ELSE 0)
    + (IF a.accessibility.hasAccessibleForms THEN 6 ELSE 0)

ContentOutcomes(a) ==
    << a.contentAnalysis.wordCount > 300,
       a.contentAnalysis.textToHtmlRatio > 1000,
       a.contentAnalysis.hasSchema, a.contentAnalysis.hasCanonical,
       a.contentAnalysis.hasSitemap, a.contentAnalysis.hasSSL,
       a.contentAnalysis.mobileResponsive, a.contentAnalysis.hasFavicon,
       a.contentAnalysis.hasCustom404, a.accessibility.hasAriaLabels,
       a.accessibility.hasAltText, a.accessibility.hasSkipLinks,
       a.accessibility.hasLangAttribute, a.accessibility.hasAccessibleForms >>

ContentMessages ==
    << "Add more content to improve engagement",
       "Improve text to HTML ratio",
       "Add schema markup for better search engine understanding",
       "Add canonical tag to prevent duplicate content issues",
       "Add XML sitemap for better search engine crawling",
       "Enable HTTPS for better security",
       "Make website mobile-friendly",
       "Add favicon for better brand recognition",
       "Create custom 404 page for better user experience",
       "Add ARIA labels for better accessibility",
       "Add alt text to all images",
       "Add skip links for better navigation",
       "Add language attribute to HTML tag",
       "Make forms more accessible by adding proper labels" >>

\* The indices of the failing checks below or at i.
FailingUpTo(outcomes, i) == {j \in 1..i : ~outcomes[j]}

\* C6: calculateContentScore evaluates 14 independent checks; the score is the
\* sum of the points of the passing checks, the suggestions list holds exactly
\* one entry per failing check in check order, all passing gives 100 with no
\* suggestion and all failing gives 0 with 14 suggestions.
C6_ContentScore ==
    Returned("calculateContentScore")
        => LET outcomes == ContentOutcomes(args)
               failing == FailingUpTo(outcomes, 14)
           IN  /\ ret.score = ContentPoints(args)
               /\ Len(ret.suggestions) = Cardinality(failing)
               /\ \A j \in failing :
                      ret.suggestions[Cardinality(FailingUpTo(outcomes, j))]
                          = ContentMessages[j]
               /\ failing = {} => ret.score = 100 /\ ret.suggestions = <<>>
               /\ failing = 1..14 => ret.score = 0 /\ Len(ret.suggestions) = 14

\* C6 witness: a call where some checks pass and some fail has returned, the
\* first and the last check among the failing ones.
C6_Witness ==
    /\ Returned("calculateContentScore")
    /\ args.contentAnalysis.wordCount = 300
    /\ args.contentAnalysis.hasSSL
    /\ ~args.accessibility.hasAccessibleForms
    /\ Len(ret.suggestions) = 5
    /\ ret.score = 67

\* The score either revision of calculatePerformanceScore returns for metrics.
PerformanceScoreOf(f, metrics) ==
    IF f = "calculatePerformanceScore"
    THEN calculatePerformanceScore(metrics).score
    ELSE calculatePerformanceScoreTiered(metrics).score

\* The points the call that has returned took off for one metric: what the
\* score gains over the returned one when that metric alone is set to 0.
SizeDeduction == PerformanceScoreOf(fn, [args EXCEPT !.htmlSize = 0]) - ret.score

LoadTimeDeduction == PerformanceScoreOf(fn, [args EXCEPT !.loadTime = 0]) - ret.score

ResourcesDeduction ==
    PerformanceScoreOf(fn, [args EXCEPT !.cssFiles = 0, !.jsFiles = 0]) - ret.score

InSeq(x, seq) == \E i \in 1..Len(seq) : seq[i] = x

SizeIssues ==
    {"HTML file size is too large", "HTML size is too large (>150KB)",
     "HTML size is slightly large (>100KB)"}

Example2 ==
    [htmlSize |-> 200000, loadTime |-> 6000, cssFiles |-> 20, jsFiles |-> 0,
     inlineStyles |-> 0, inlineScripts |-> 0]

\* C7 (as claimed): for htmlSize=200000, loadTime=6000, cssFiles=20 and no
\* other resources calculatePerformanceScore deducts 20 points for size, 30 for
\* load time and 15 for resources from 100, and the rating is poor.
C7_Example2 ==
    (Returned("calculatePerformanceScore") /\ args = Example2)
        => /\ SizeDeduction = 20
           /\ LoadTimeDeduction = 30
           /\ ResourcesDeduction = 15
           /\ ret.score = 100 - 20 - 30 - 15
           /\ ret.rating = "poor"

\* C8 (as claimed): in calculatePerformanceScore (either revision) the
\* HTML-size deduction is 0 at or below 100 KB, non-decreasing in htmlSize (the
\* score never rises with the size), never above 20 points, and 20 points for
\* every htmlSize above 150 KB, where a size issue is emitted.
C8_SizeDeduction ==
    (pc = "return" /\ fn \in {"calculatePerformanceScore",
                              "calculatePerformanceScoreTiered"})
        => /\ args.htmlSize <= 100000 => SizeDeduction = 0
           /\ SizeDeduction <= 20
           /\ \A smaller \in HtmlSizes :
                  smaller <= args.htmlSize
                      => PerformanceScoreOf(fn, [args EXCEPT !.htmlSize = smaller])
                             >= ret.score
           /\ args.htmlSize > 150000
                  => /\ SizeDeduction = 20
                     /\ \E issue \in SizeIssues : InSeq(issue, ret.issues)

\* C9: the load-time deduction of calculatePerformanceScore (capped penalties)
\* is 0 at or below 2000 ms, non-decreasing in loadTime (the score never rises
\* with the load time), never above 30 points, and 30 points for every
\* loadTime above 5000 ms, where a load-time issue is emitted.
C9_LoadTimeDeduction ==
    Returned("calculatePerformanceScore")
        => /\ args.loadTime <= 2000 => LoadTimeDeduction = 0
           /\ LoadTimeDeduction >= 0 /\ LoadTimeDeduction <= 30
           /\ \A smaller \in LoadTimes :
                  smaller <= args.loadTime
                      => PerformanceScoreOf(fn, [args EXCEPT !.loadTime = smaller])
                             >= ret.score
           /\ args.loadTime > 5000
                  => /\ LoadTimeDeduction = 30
                     /\ InSeq("Page load time is too slow", ret.issues)

\* C9 witness: a call with a load time above 5000 ms has returned with the
\* load-time issue, 30 points below the same page loaded instantly.
C9_Witness ==
    /\ Returned("calculatePerformanceScore")
    /\ args.loadTime = 5001
    /\ LoadTimeDeduction = 30
    /\ InSeq("Page load time is too slow", ret.issues)

\* The points a string check of the call that has returned awarded: what the
\* returned score loses when the string alone is taken away.
TitlePoints ==
    ret.score - calculateSEOScore([args EXCEPT !.title = NoString]).score

DescriptionPoints ==
    ret.score - calculateSEOScore([args EXCEPT !.description = NoString]).score

TitleMessages == {"Title is too short", "Title is too long", "Missing title tag"}

DescriptionMessages ==
    {"Meta description is too short", "Meta description is too long",
     "Missing meta description"}

\* The entries of suggestions that are among msgs, in order.
Among(suggestions, msgs) == SelectSeq(suggestions, LAMBDA m : m \in msgs)

Example1 ==
    [title |-> 45, description |-> NoString,
     headings |-> [h1 |-> 1, h2 |-> 0, h3 |-> 0],
     images |-> [total |-> 0, withoutAlt |-> 0],
     meta |-> [hasViewport |-> FALSE, hasCharset |-> FALSE,
               keywords |-> NoString, ogTags |-> {}]]

\* C10: the title check and the description check of calculateSEOScore each
\* award 20 points when the string is present with its length in the ideal
\* range ([30,60] for the title, [120,160] for the description, inclusive), 10
\* points plus one too short / too long suggestion when present but outside
\* it, and 0 points plus one Missing suggestion when absent or empty; a
\* 45-character title with no description, one H1 and nothing else scores 30
\* with the single suggestion Missing meta description.
C10_TitleAndDescription ==
    Returned("calculateSEOScore")
        => LET t == args.title
               d == args.description
               tm == Among(ret.suggestions, TitleMessages)
               dm == Among(ret.suggestions, DescriptionMessages)
           IN  /\ (Present(t) /\ t >= 30 /\ t <= 60)
                      => TitlePoints = 20 /\ tm = <<>>
               /\ (Present(t) /\ t < 30)
                      => TitlePoints = 10 /\ tm = <<"Title is too short">>
               /\ (Present(t) /\ t > 60)
                      => TitlePoints = 10 /\ tm = <<"Title is too long">>
               /\ ~Present(t)
                      => TitlePoints = 0 /\ tm = <<"Missing title tag">>
               /\ (Present(d) /\ d >= 120 /\ d <= 160)
                      => DescriptionPoints = 20 /\ dm = <<>>
               /\ (Present(d) /\ d < 120)
                      => /\ DescriptionPoints = 10
                         /\ dm = <<"Meta description is too short">>
               /\ (Present(d) /\ d > 160)
                      => /\ DescriptionPoints = 10
                         /\ dm = <<"Meta description is too long">>
               /\ ~Present(d)
                      => /\ DescriptionPoints = 0
                         /\ dm = <<"Missing meta description">>
               /\ args = Example1
                      => /\ ret.score = 30
                         /\ ret.suggestions = <<"Missing meta description">>

\* C10 witness: the call of the example has returned.
C10_Witness ==
    /\ Returned("calculateSEOScore")
    /\ args = Example1
    /\ ret.score = 30

(***************************************************************************)
(* The image block of calculateSEOScore.                                   *)
(***************************************************************************)
HeadingMessages == {"Missing H1 tag", "Multiple H1 tags found"}

\* The entries of suggestions that none of the string and heading checks
\* pushes, in order.
OtherSuggestions(suggestions) ==
    SelectSeq(suggestions,
              LAMBDA m : m \notin TitleMessages \cup DescriptionMessages
                                   \cup HeadingMessages)

\* The score the same input returns with its images taken away.
ScoreWithoutImages ==
    calculateSEOScore([args EXCEPT !.images = [total |-> 0, withoutAlt |-> 0]]).score

\* C11: the image block of calculateSEOScore awards
\* (total - withoutAlt) / total * 20 points when total > 0 (the returned score
\* is the nearest integer to the other blocks' points plus that credit) and
\* emits exactly one suggestion, naming withoutAlt, iff withoutAlt > 0; with
\* total = 0 it awards no points and no suggestion, so a page without images
\* cannot score above 80.
C11_ImageBlock ==
    Returned("calculateSEOScore")
        => LET total == args.images.total
               withoutAlt == args.images.withoutAlt
               \* 2 * total * (score - other points - credit)
               off == 2 * total * (ret.score - ScoreWithoutImages)
                      - 40 * (total - withoutAlt)
               named == ToString(withoutAlt) \o " images missing alt text"
           IN  /\ total > 0 => (off > -total /\ off <= total)
               /\ (total > 0 /\ withoutAlt > 0)
                      => OtherSuggestions(ret.suggestions) = <<named>>
               /\ (total > 0 /\ withoutAlt = 0)
                      => OtherSuggestions(ret.suggestions) = <<>>
               /\ total = 0
                      => /\ ret.score = ScoreWithoutImages
                         /\ OtherSuggestions(ret.suggestions) = <<>>
                         /\ ret.score <= 80

\* C11 witness: a page with images, some of them without alt text, has been
\* scored with a credit that is not a whole number (C11_WitnessNoImages: a
\* page without images has reached the top score 80).
C11_Witness ==
    /\ Returned("calculateSEOScore")
    /\ args.images = [total |-> 3, withoutAlt |-> 1]
    /\ ret.score - ScoreWithoutImages = 13
    /\ Len(OtherSuggestions(ret.suggestions)) = 1

C11_WitnessNoImages ==
    Returned("calculateSEOScore") /\ args.images.total = 0 /\ ret.score = 80

(***************************************************************************)
(* Properties of the page analysis (SpecPage).                             *)
(***************************************************************************)
Range(s) == {s[i] : i \in 1..Len(s)}

Example5Page ==
    [BlankPage EXCEPT !.anchors = Example5Links, !.padding = 50000,
                      !.head = "<script>gtag('config', 'UA-1');</script>"]

\* C12: the traffic score analyzeSEO returns is the integer nearest to
\* min(100, min(100, contentLength / 1000) + min(50, 2 * number of distinct
\* external hostnames) + 10 * socialCount + (30 if the HTML contains an
\* analytics snippet, else 0)) and lies in 0..100; for contentLength = 50000,
\* ten external domains, socialCount = 3 and analytics present the score is
\* 100 and the level 'high'.
C12_TrafficScore ==
    Returned("analyzeSEO")
        => LET hostnames == Range(ret.links.external.domains)
               sum == Min(100000, ContentLength(args))
                      + 1000 * (Min(50, 2 * Cardinality(hostnames))
                                + 10 * ret.links.external.social
                                + IF HasAnalytics(args) THEN 30 ELSE 0)
               clamped == Min(100000, sum)
               \* 2000 * (score - clamped / 1000)
               off == 2000 * ret.traffic.score - 2 * clamped
           IN  /\ off > -1000 /\ off <= 1000
               /\ ret.traffic.score \in 0..100
               /\ args = Example5Page
                      => /\ ContentLength(args) = 50000
                         /\ Cardinality(hostnames) = 10
                         /\ ret.links.external.social = 3
                         /\ ret.traffic = [score |-> 100, level |-> "high"]

\* C12 witness: the page of Example 5 has been analysed and scored 100
\* (C12_WitnessRounded: a sum of 14.5 has been returned as 15).
C12_Witness ==
    /\ Returned("analyzeSEO")
    /\ args = Example5Page
    /\ ret.traffic.score = 100

C12_WitnessRounded ==
    /\ Returned("analyzeSEO")
    /\ args.padding = 500 /\ args.anchors = Example3Links /\ args.head = ""
    /\ ret.traffic.score = 15

ThresholdLevel(score) ==
    IF score < 40 THEN "low" ELSE IF score < 70 THEN "medium" ELSE "high"

\* C13: for every traffic estimate returned, by analyzeSEO and by
\* analyzeLinks, the level is the threshold function of the returned integer
\* score: 'low' iff score < 40, 'medium' iff 40 <= score < 70, 'high' iff
\* score >= 70.
C13_LevelOfReturnedScore ==
    (pc = "return" /\ fn \in {"analyzeSEO", "analyzeLinks"})
        => ret.traffic.level = ThresholdLevel(ret.traffic.score)

\* The number of distinct external domains of a page.
ExternalDomainCount(page) ==
    Cardinality(EachLinks(page.anchors, page.url).externalLinks)

\* C14: the traffic score analyzeLinks returns depends on the page's links
\* only through the external-domain count and the social-link count: a page
\* with the same content length, the same number of distinct external
\* domains, the same social-link count and the same analytics presence
\* receives the same score, however many http links it contains.
C14_ScoreOfDomainsAndSocial ==
    Returned("analyzeLinks")
        => \A other \in Pages :
               (/\ ContentLength(other) = ContentLength(args)
                /\ ExternalDomainCount(other) = ExternalDomainCount(args)
                /\ socialLinks(other) = socialLinks(args)
                /\ HasAnalytics(other) = HasAnalytics(args))
                   => analyzeLinks(other).traffic.score = ret.traffic.score

\* A vocabulary keyword occurs in the lower-cased text, meta keywords or
\* title of the analysed page.
Occurs(niche) ==
    \E searched \in {ToLowerCase(args.text), ToLowerCase(args.keywords),
                     ToLowerCase(args.title)} : Includes(searched, niche)

VocabularyPosition(niche) == CHOOSE i \in 1..Len(niches) : niches[i] = niche

\* C15: niche detection, in analyzeSEO and in analyzeLinks, returns in
\* vocabulary order exactly those of the ten keywords that occur as a
\* substring of the lower-cased page text, meta keywords or title, and
\* ['unknown'] iff none occurs; the result is never empty, never holds a
\* string outside the vocabulary plus 'unknown', and never holds 'unknown'
\* together with a keyword.
C15_Niche ==
    (pc = "return" /\ fn \in {"analyzeSEO", "analyzeLinks"})
        => LET found == {niche \in Range(niches) : Occurs(niche)}
           IN  /\ Len(ret.niche) > 0
               /\ Range(ret.niche) \subseteq Range(niches) \cup {"unknown"}
               /\ found # {}
                      => /\ Range(ret.niche) = found
                         /\ \A i, j \in 1..Len(ret.niche) :
                                i < j => VocabularyPosition(ret.niche[i])
                                             < VocabularyPosition(ret.niche[j])
               /\ found = {} <=> ret.niche = <<"unknown">>
               /\ ~ ("unknown" \in Range(ret.niche)
                     /\ Range(ret.niche) \cap Range(niches) # {})

\* C15 witness: a page whose text names Technology and FINANCE, in capitals,
\* has been classified (C15_WitnessUnknown: a page naming no keyword;
\* C15_WitnessTitle: analyzeLinks found a keyword in the title only).
C15_Witness ==
    /\ Returned("analyzeSEO")
    /\ args.text = "We cover Technology and FINANCE news."
    /\ args.keywords = "" /\ args.title = "My blog"
    /\ ret.niche = <<"technology", "finance">>

C15_WitnessUnknown ==
    /\ Returned("analyzeSEO")
    /\ args.text = "Nothing relevant here."
    /\ ret.niche = <<"unknown">>

C15_WitnessTitle ==
    /\ Returned("analyzeLinks")
    /\ args.text = "A businessman likes seafood."
    /\ args.title = "Education Weekly"
    /\ ret.niche = <<"education", "food", "business">>

\* C16: for every set of anchors the link metrics of analyzeSEO satisfy
\* links.external.unique <= links.external.total.
C16_UniqueAtMostTotal ==
    Returned("analyzeSEO")
        => ret.links.external.unique <= ret.links.external.total

\* The anchors of the analysed page that carry a href, resolved against the
\* page URL.
Resolved == {NewURL(args.anchors[i].href, args.url) :
                 i \in {j \in 1..Len(args.anchors) : args.anchors[j].href # ""}}

PageHostname == ParseURL(args.url).hostname

\* The number of anchors with a href that satisfy Test.
CountAnchors(Test(_)) ==
    Len(SelectSeq(args.anchors, LAMBDA a : a.href # "" /\ Test(a)))

\* C17: link classification in analyzeSEO resolves each href against the
\* page URL: a link whose resolved hostname is the page's adds its pathname
\* to the internal unique paths, a link with another hostname and an http(s)
\* scheme adds its hostname to the external unique domains (and nothing else
\* does), and a link whose hostname matches a social pattern increments
\* social whichever class it falls in.  The ten links of Example 3 give
\* internal.unique = 6, external.unique = 2, social = 1, nofollow = 1.
C17_LinkClassification ==
    Returned("analyzeSEO")
        => LET sameHost == {u \in Resolved : u.ok /\ u.hostname = PageHostname}
               otherHost == {u \in Resolved :
                                 /\ u.ok /\ u.hostname # PageHostname
                                 /\ u.protocol \in {"http:", "https:"}}
               internal == ret.links.internal
               external == ret.links.external
           IN  /\ {u.pathname : u \in sameHost} \subseteq Range(internal.paths)
               /\ (\A u \in Resolved : u.ok)
                      => {u.pathname : u \in sameHost} = Range(internal.paths)
               /\ internal.unique = Cardinality(Range(internal.paths))
               /\ {u.hostname : u \in otherHost} = Range(external.domains)
               /\ external.unique = Cardinality(Range(external.domains))
               /\ external.social =
                      CountAnchors(LAMBDA a :
                          LET u == NewURL(a.href, args.url)
                          IN  u.ok /\ \E pattern \in SocialPatterns :
                                          Includes(u.hostname, pattern))
               /\ args.anchors = Example3Links
                      => /\ Cardinality(sameHost) = 6
                         /\ internal.unique = 6
                         /\ external.unique = 2
                         /\ external.social = 1
                         /\ external.nofollow = 1

\* C17 witness: the ten links of Example 3 have been classified
\* (C17_WitnessSocialOther: a social hostname under ftp was counted as
\* social and put in neither class).
C17_Witness ==
    /\ Returned("analyzeSEO")
    /\ args.anchors = Example3Links
    /\ Len(ret.links.internal.paths) = 6
    /\ Len(ret.links.external.domains) = 4

C17_WitnessSocialOther ==
    /\ Returned("analyzeSEO")
    /\ args.anchors = <<Link("ftp://files.facebook.com/f")>>
    /\ ret.links.external.social = 1
    /\ ret.links.external.unique = 0 /\ ret.links.internal.unique = 0

(***************************************************************************)
(* Properties of fetching (SpecFetch).                                     *)
(***************************************************************************)
\* C18: for a url the URL parser rejects, analyzeSEO rejects with the
\* 'Invalid URL format' error and issues no HTTP request at all: no proxy
\* fetch, no sitemap or 404 probe and no analyzeLinks call, before or after
\* the rejection.
C18_InvalidUrlNoRequest ==
    ~ ParseURL(args.url).ok
        => /\ requests = <<>>
           /\ pc \in {"validate", "rejected"}
           /\ pc = "rejected" => Includes(ret.error, "Invalid URL format")

\* C18 witness: the single-proxy revision has rejected a url without a
\* scheme.
C18_Witness ==
    /\ pc = "rejected"
    /\ args = [file |-> "seoAnalyzer.ts", url |-> "example.com"]
    /\ ret.error = "SEO analysis failed: " \o InvalidUrlMessage
    /\ requests = <<>>

\* The requests for the page, in the order they were issued.
PageRequests == SelectSeq(requests, LAMBDA r : r.purpose = "page")

\* The call runs a revision with the proxy list.
MultiProxy == args.file \in {"part_003", "part_004"}

\* The attempt failed: a request error, a timeout or a status other than 200.
AttemptFailed(response) ==
    response.kind \in {"error", "timeout"} \/ response.status # 200

\* The attempt returned status 200 with an empty body.
EmptyBody(response) ==
    response.kind = "response" /\ response.status = 200
    /\ response.data = Str("")

\* The attempt succeeded: status 200 with a body.
AttemptSucceeded(response) ==
    response.kind = "response" /\ response.status = 200
    /\ response.data # Str("")

\* The proxies are contacted in list order, one request each.
InListOrder ==
    /\ Len(PageRequests) <= Len(CORS_PROXIES)
    /\ \A k \in 1..Len(PageRequests) :
           PageRequests[k].url = CORS_PROXIES[k] \o encodeURIComponent(args.url)

\* No proxy is contacted after one that succeeded.
NoneAfterSuccess ==
    \A k \in 1..Len(PageRequests) :
        AttemptSucceeded(PageRequests[k].response) => k = Len(PageRequests)

\* C19 as stated: in the multi-proxy analyzeSEO the proxies are tried one
\* after another in list order, proxy i+1 is contacted only after the
\* attempt on proxy i has failed (request error, timeout or non-200
\* status), and once a proxy has succeeded no later proxy is contacted.
C19_Original ==
    MultiProxy
        => /\ InListOrder
           /\ \A k \in 2..Len(PageRequests) :
                  AttemptFailed(PageRequests[k - 1].response)
           /\ NoneAfterSuccess

\* C19 amended: ... proxy i+1 is contacted only after the attempt on proxy
\* i has failed (request error, timeout or non-200 status) or has returned
\* status 200 with an empty body, and once a proxy has succeeded (status
\* 200 with a body) no later proxy is contacted.
C19_Amended ==
    MultiProxy
        => /\ InListOrder
           /\ \A k \in 2..Len(PageRequests) :
                  \/ AttemptFailed(PageRequests[k - 1].response)
                  \/ EmptyBody(PageRequests[k - 1].response)
           /\ NoneAfterSuccess

\* C19 witness: the third proxy was contacted after two failures and
\* answered (C19_WitnessEmptyBody: the second proxy was contacted after the
\* first returned status 200 with an empty body).
C19_Witness ==
    /\ MultiProxy
    /\ Len(PageRequests) = 3
    /\ PageRequests[1].response.kind = "timeout"
    /\ PageRequests[2].response.status = 500
    /\ AttemptSucceeded(PageRequests[3].response)
    /\ pc = "resolved" /\ ret.proxyUsed = CORS_PROXIES[3]

C19_WitnessEmptyBody ==
    /\ MultiProxy
    /\ Len(PageRequests) = 2
    /\ EmptyBody(PageRequests[1].response)

\* The response gives the loop a non-empty HTML string.
YieldsHtml(proxy, response) ==
    /\ response.kind = "response" /\ response.status = 200
    /\ HtmlFrom(proxy, response.data).type = "string"
    /\ HtmlFrom(proxy, response.data).value # ""

\* C20: the proxy loop stops only at the first structurally valid
\* response: whenever a proxy's response does not yield a non-empty HTML
\* string (a status-200 response whose body lacks a usable contents field
\* included) the next proxy in the list is tried, and the 'Failed to fetch
\* website content' error is thrown only after every configured proxy has
\* been tried.
C20_StopsAtValidResponse ==
    (MultiProxy /\ pc # "fetch" /\ Len(PageRequests) > 0)
        => LET tried == Len(PageRequests)
           IN  /\ tried < Len(CORS_PROXIES)
                      => YieldsHtml(CORS_PROXIES[tried],
                                    PageRequests[tried].response)
               /\ (pc = "rejected" /\ Includes(ret.error, "Failed to fetch website content"))
                      => tried = Len(CORS_PROXIES)

(***************************************************************************)
(* Properties of the probes of seoAnalyzer.ts.                             *)
(***************************************************************************)
SingleProxy == args.file = "seoAnalyzer.ts"

\* The requests made for the given purpose, in the order they were issued.
RequestsFor(purpose) == SelectSeq(requests, LAMBDA r : r.purpose = purpose)

Asked(purpose) == RequestsFor(purpose) # <<>>

\* The probe request failed: network error, timeout, a status the request
\* does not accept, or a response without a contents string.
ProbeFailed(response, only200) ==
    \/ ~ Resolves(response, only200)
    \/ Contents(response.data).type # "string"

SitemapFailed == Asked("sitemap") /\ ProbeFailed(RequestsFor("sitemap")[1].response, TRUE)

NotFoundFailed == Asked("notFound") /\ ProbeFailed(RequestsFor("notFound")[1].response, FALSE)

\* analyzeSEO has not rejected, or it rejected on the request of
\* analyzeLinks, which comes after the scoring step.
RejectedOnlyByLinks ==
    pc = "rejected" =>
        /\ Asked("links")
        /\ Includes(ret.error, "Link analysis failed")

\* The features of the primary page are what the primary fetch returned.
PageFeaturesKept ==
    /\ local.html = Contents(requests[1].response.data)
    /\ local.proxyUsed = CORS_PROXY
    /\ pc = "resolved" => ret.html = local.html.value

\* C21: in seoAnalyzer.ts a failed sitemap fetch or a failed 404 probe
\* (network error, timeout, non-200 sitemap status, no contents string) never
\* rejects analyzeSEO: its flag stays false, the other probe still runs, and
\* the call goes on to the scoring step (and to analyzeLinks after it) with
\* the features of the primary page unchanged.
C21_ProbeFailureAbsorbed ==
    SingleProxy =>
        /\ SitemapFailed =>
               /\ local.hasSitemap = FALSE
               /\ pc = "notFound" \/ Asked("notFound")
               /\ pc \in {"notFound", "analyzeLinks", "resolved", "rejected"}
               /\ RejectedOnlyByLinks
               /\ PageFeaturesKept
               /\ pc = "resolved" => ret.hasSitemap = FALSE
        /\ NotFoundFailed =>
               /\ local.hasCustom404 = FALSE
               /\ Asked("sitemap")
               /\ pc \in {"analyzeLinks", "resolved", "rejected"}
               /\ RejectedOnlyByLinks
               /\ PageFeaturesKept
               /\ pc = "resolved" => ret.hasCustom404 = FALSE

\* Both probes failed (the sitemap with status 404, the 404 probe with a
\* timeout) and analyzeSEO resolved.
C21_Witness ==
    /\ SingleProxy
    /\ pc = "resolved"
    /\ SitemapFailed
    /\ RequestsFor("sitemap")[1].response.status = 404
    /\ NotFoundFailed
    /\ RequestsFor("notFound")[1].response.kind = "timeout"

\* The sitemap probe failed on a response without contents while the 404
\* probe found a custom page.
C21_WitnessOneProbe ==
    /\ SingleProxy
    /\ pc = "resolved"
    /\ SitemapFailed
    /\ RequestsFor("sitemap")[1].response.kind = "response"
    /\ RequestsFor("sitemap")[1].response.status = 200
    /\ ret.hasCustom404 = TRUE

\* The network operations of the single-proxy analyzeSEO, in program order.
FetchOrder == <<"page", "sitemap", "notFound", "links">>

\* The number of requests that have settled when the call stands at pc.
SettledAt ==
    CASE pc \in {"validate", "fetch"} -> {0}
      [] pc = "sitemap" -> {1}
      [] pc = "notFound" -> {2}
      [] pc = "analyzeLinks" -> {3}
      [] pc = "resolved" -> {4}
      [] pc = "rejected" -> {0, 1, 4}

\* The primary fetch returned status 200 with a non-empty string in contents.
PrimaryFetched ==
    /\ requests # <<>>
    /\ requests[1].response.kind = "response"
    /\ requests[1].response.status = 200
    /\ Contents(requests[1].response.data).type = "string"
    /\ Contents(requests[1].response.data).value # ""

\* C26: in the single-proxy analyzeSEO the requests are issued in the fixed
\* order primary page, sitemap, 404 probe, analyzeLinks, each after the
\* previous one has settled, and none of the three later ones is issued
\* unless the primary fetch returned status 200 with a non-empty contents
\* string.
C26_FetchOrder ==
    SingleProxy =>
        /\ Len(requests) <= Len(FetchOrder)
        /\ \A k \in DOMAIN requests : requests[k].purpose = FetchOrder[k]
        /\ Len(requests) \in SettledAt
        /\ Len(requests) > 1 => PrimaryFetched

\* All four requests were issued and the call resolved.
C26_Witness ==
    /\ SingleProxy
    /\ pc = "resolved"
    /\ Len(requests) = 4
    /\ PrimaryFetched

\* The primary fetch returned status 200 without contents: the call was
\* rejected after one request.
C26_WitnessNoContents ==
    /\ SingleProxy
    /\ pc = "rejected"
    /\ Len(requests) = 1
    /\ requests[1].response.status = 200
    /\ ~ PrimaryFetched

\* C27: analyzeSEO is all-or-nothing with respect to analyzeLinks: when the
\* request made by analyzeLinks fails, analyzeSEO rejects with the single
\* message 'SEO analysis failed: Link analysis failed: ...' and returns no
\* result, although the page had been fetched and analysed.
C27_LinksAllOrNothing ==
    (Asked("links") /\ ~ Resolves(RequestsFor("links")[1].response, TRUE))
        => /\ pc = "rejected"
           /\ DOMAIN ret = {"error"}
           /\ ret.error =
                  "SEO analysis failed: Link analysis failed: "
                      \o AxiosMessage(RequestsFor("links")[1].response, "0")
           /\ IsTruthy(local.html)
           /\ RequestsFor("page") # <<>>
           /\ Resolves(RequestsFor("page")[Len(RequestsFor("page"))].response,
                       TRUE)

\* The page was fetched, both probes succeeded, and the request of
\* analyzeLinks ended with a network error.
C27_Witness ==
    /\ SingleProxy
    /\ pc = "rejected"
    /\ Asked("links")
    /\ RequestsFor("links")[1].response.kind = "error"
    /\ local.hasSitemap /\ local.hasCustom404
    /\ ret.error = "SEO analysis failed: Link analysis failed: Network Error"

\* The same in part_003, with status 500.
C27_WitnessProxyList ==
    /\ args.file = "part_003"
    /\ pc = "rejected"
    /\ Asked("links")
    /\ RequestsFor("links")[1].response.status = 500

(***************************************************************************)
(* The nofollow counter of analyzeSEO (SpecPage).                          *)
(***************************************************************************)
\* The anchors of the analysed page with the given href and a rel that
\* contains 'nofollow'.
NofollowOn(href) ==
    \E i \in 1..Len(args.anchors) :
        /\ args.anchors[i].href = href
        /\ Includes(args.anchors[i].rel, "nofollow")

\* C30: the nofollow counter of analyzeSEO counts every anchor with a href
\* whose rel contains 'nofollow', however the link is classified afterwards
\* (internal, non-http scheme, unparseable and dropped), so
\* links.external.nofollow is not bounded by links.external.total.
C30_NofollowCount ==
    Returned("analyzeSEO")
        => ret.links.external.nofollow =
               CountAnchors(LAMBDA a : Includes(a.rel, "nofollow"))

\* An internal nofollow link is counted: nofollow = 1 with external.total = 0.
C30_Witness ==
    /\ Returned("analyzeSEO")
    /\ NofollowOn("/about")
    /\ ret.links.external.nofollow > ret.links.external.total
    /\ ret.links.internal.unique = 1

\* A mailto link and a href that does not parse, both nofollow, join
\* neither class and are counted.
C30_WitnessDropped ==
    /\ Returned("analyzeSEO")
    /\ NofollowOn("mailto:me@example.com")
    /\ NofollowOn("http://")
    /\ ret.links.external.nofollow = 2
    /\ ret.links.external.unique = 0 /\ ret.links.internal.unique = 0

(***************************************************************************)
(* Repeated calls of the scoring functions (SpecRepeat).                   *)
(***************************************************************************)
\* The calls made before the current one with the same function and an
\* identical argument.
SameCallBefore == {k \in DOMAIN calls : calls[k].fn = fn /\ calls[k].args = args}

Pending == {i \in DOMAIN calls : calls[i].status = "pending"}

HasSettled(i) == i \in DOMAIN calls /\ calls[i].status \in {"resolved", "rejected"}

\* C22: at most one analysis is in flight at any time in the App component:
\* from the start of handleAnalyze until its analyzeSEO promise settles,
\* loading is true and the submit button is disabled, so no second
\* analyzeSEO call starts before the first has resolved or rejected.
C22_OneInFlight ==
    /\ Cardinality(Pending) <= 1
    /\ Pending # {} => /\ app.loading
                       /\ Disabled(app)
                       /\ ~ ENABLED Submit

\* A second analysis is in flight after the first one has settled.
C22_Witness ==
    /\ args.file = "App.tsx"
    /\ Len(calls) = 2
    /\ HasSettled(1)
    /\ Pending = {2}
    /\ app.loading

\* The invocation that settled last.
LastSettled == CHOOSE i \in DOMAIN calls : calls[i].order = SettledSoFar(calls)

\* The display shows the outcome of invocation i.
Shows(i) ==
    IF calls[i].status = "resolved"
    THEN app.analysis = calls[i].outcome
    ELSE app.error = Str(calls[i].outcome.message)

\* C23: handleAnalyze has no cancellation and no request identity check: when
\* a second invocation starts while a first is in flight, both run to
\* completion, each writes its outcome into the displayed state when its
\* promise settles, and when all have settled the display shows the outcome
\* of the invocation that settled last, even if it was requested earlier.
C23_LastDisplayWins ==
    [][/\ \A i \in Pending : HasSettled(i)' => Shows(i)'
       /\ \A i \in Pending : (calls'[i].status = "pending") \/ HasSettled(i)'
       /\ (Pending' = {} /\ SettledSoFar(calls') > 0) => Shows(LastSettled)']_vars

\* Two invocations overlapped, the one requested first settled last, and its
\* result is on display, not the result of the later request.
C23_Witness ==
    /\ Len(calls) = 2
    /\ calls[1].status = "resolved" /\ calls[2].status = "resolved"
    /\ calls[1].order = 2 /\ calls[2].order = 1
    /\ calls[1].outcome # calls[2].outcome
    /\ app.analysis = calls[1].outcome

\* C24: every new analysis request discards or replaces the result on
\* display: in a sequence of non-overlapping requests, once a request has
\* settled the result on display is the result of that request or none,
\* never a result of an earlier request.
C24_NoStaleResult ==
    (calls # <<>> /\ Pending = {})
        => app.analysis = IF calls[Len(calls)].status = "resolved"
                          THEN calls[Len(calls)].outcome
                          ELSE Null

\* C28: in the App component (App.tsx) a result and an error message are
\* never on display together: when error is non-empty analysis is null, and
\* when analysis is non-null error is empty.
C28_ResultOrError ==
    args.file = "App.tsx"
        => /\ IsTruthy(app.error) => app.analysis = Null
           /\ app.analysis # Null => ~ IsTruthy(app.error)

\* A request resolved, the next one was rejected: the error is on display
\* and the earlier result is gone.
C28_Witness ==
    /\ args.file = "App.tsx"
    /\ Len(calls) = 2
    /\ calls[1].status = "resolved"
    /\ calls[2].status = "rejected"
    /\ IsTruthy(app.error)
    /\ app.analysis = Null

\* The continuation of invocation i ran in this step.
Settles(i) == i \in Pending /\ HasSettled(i)'

\* The continuation wrote its outcome and nothing else, and reset loading.
WritesOutcome(i) ==
    /\ app'.loading = FALSE
    /\ calls'[i].status = "resolved"
           => /\ app'.analysis = calls'[i].outcome
              /\ app'.error = app.error
    /\ calls'[i].status = "rejected"
           => /\ app'.error = Str(calls'[i].outcome.message)
              /\ app'.analysis = app.analysis

\* handleAnalyze was called in this step.
Calls == Len(calls') = Len(calls) + 1

\* C29: every started handleAnalyze (App.tsx) eventually sets loading back to
\* false, whether analyzeSEO resolves or rejects, with exactly one of
\* setAnalysis(result) and setError(message) executed before; with an empty
\* url handleAnalyze returns at once and leaves loading, analysis and error
\* unchanged.  (Pending invocations are always followed by a state in which
\* none is pending: each of them has settled, and the step in which it
\* settled reset loading.)
C29_LoadingReset ==
    /\ (args.file = "App.tsx" /\ Pending # {}) ~> (Pending = {})
    /\ [][args.file = "App.tsx"
              => /\ \A i \in DOMAIN calls : Settles(i) => WritesOutcome(i)
                 /\ (Calls /\ app.url = "")
                        => /\ app' = app
                           /\ calls'[Len(calls')].status = "returned"
                 /\ (Calls /\ app.url # "")
                        => /\ app'.loading
                           /\ calls'[Len(calls')].status = "pending"]_vars

\* One invocation was rejected and left loading false with its message on
\* display; a later one with an empty url returned at once.
C29_Witness ==
    /\ args.file = "App.tsx"
    /\ Len(calls) = 2
    /\ calls[1].status = "rejected"
    /\ calls[2].status = "returned"
    /\ app.loading = FALSE
    /\ app.error = Str(calls[1].outcome.message)
    /\ app.url = ""

====
